---- MODULE Spec2Model ----
(***************************************************************************)
(* A model of the soul-learning-app of soul-engine-old-forked: the         *)
(* conversation log (WorkingMemory and the stand-alone SimpleWorkingMemory),*)
(* the cognitive steps of soul/cognitiveSteps, the two LocalSoulRunner      *)
(* classes (local-soul-runner.ts and direct-demo.ts) and the mental         *)
(* process scholarAwakens.                                                  *)
(*                                                                          *)
(* The repository has several entry points.  The variable `program` is     *)
(* chosen in Init and names the one a behaviour runs; every action belongs  *)
(* to one program.                                                          *)
(*                                                                          *)
(* Text is modelled as a sequence of string tokens, so that string          *)
(* templates (`${entityName} decided: ${choice}`) are concatenations and    *)
(* prefix-stripping regular expressions are operations on the tokens.       *)
(***************************************************************************)
EXTENDS Integers, Sequences, FiniteSets, TLC

(***************************************************************************)
(* Bounds of the model.                                                     *)
(***************************************************************************)
\* the wall clock (Date) takes the values 0..MaxClock
MaxClock == 1
\* messages a host delivers to one soul
MaxMessages == 2
\* messages of the stand-alone demo's conversation
MaxTurns == 2
\* repeated runs of one cognitive step on the same inputs
MaxRuns == 2
\* fragments of one streamed response
MaxFragments == 3

VARIABLES
  program,        \* the entry point this behaviour runs
  clock,          \* the wall clock read by `new Date()`
  \* ---- standalone-demo.ts
  arrays,         \* the JS arrays held by SimpleWorkingMemory objects: id -> entries
  held,           \* the references the program holds, in the order it obtained
                  \* them: <<soul.memory>>, or <<M>>, <<M, M1>>, <<M, M1, M2>>
  initialEntries, \* the entries of the first object when it was constructed
  appended,       \* every entry handed to addMemory, in call order
  lastReturn,     \* what the last processMessage call returned
  \* ---- one cognitive step run repeatedly on fixed inputs
  lab,            \* the step, its options, the input memory, the Processor's
                  \* response and the result of every run so far
  \* ---- a LocalSoulRunner object and its host
  soul,           \* the fields of the LocalSoulRunner, the memory file, what the
                  \* "speaks" listeners received, and where runCognitiveProcess is
  scholar         \* one invocation of the mental process scholarAwakens: its
                  \* local variables and where it is

vStandalone == <<arrays, held, initialEntries, appended, lastReturn>>
vars == <<program, clock, vStandalone, lab, soul, scholar>>

Programs ==
  {"standalone", "fork", "step", "stream", "runner", "souls", "enhanced", "scholar",
   "teaching", "learning", "terminal"}
\* the programs that read the wall clock
ClockReaders == {"step", "runner", "enhanced", "scholar", "teaching"}

(***************************************************************************)
(* Memory entries.                                                          *)
(***************************************************************************)
System == "system"
User == "user"
Assistant == "assistant"

Entry(role, content) == [role |-> role, content |-> content]
EntryWithMetadata(role, content, metadata) ==
  [role |-> role, content |-> content, metadata |-> metadata]

\* new Date().toISOString(): the ISO rendering of the instant t
ISOString(t) == <<"iso", t>>

\* list.slice(-n)
LastN(list, n) == IF Len(list) <= n THEN list ELSE SubSeq(list, Len(list) - n + 1, Len(list))

IsPrefix(s, t) == Len(s) <= Len(t) /\ SubSeq(t, 1, Len(s)) = s

Range(s) == {s[i] : i \in 1..Len(s)}

(***************************************************************************)
(* standalone-demo.ts: SimpleWorkingMemory and StandaloneSoul.              *)
(* A SimpleWorkingMemory object owns one JS array (the constructor keeps    *)
(* the array it is given), so an object is identified with the id of its    *)
(* array in `arrays`.                                                       *)
(***************************************************************************)
Blueprint == <<"Scholar.md">>
DefaultBlueprint == <<"You are Scholar, a curious and helpful AI assistant.">>

\* new SimpleWorkingMemory(initialMemories): a new object around the array
NewSimpleWorkingMemory(arrs, initialMemories) ==
  [arrays |-> Append(arrs, initialMemories), ref |-> Len(arrs) + 1]

\* A plausible bug: the entry replaces the last one instead of being pushed.
AddMemoryOverwrites(arrs, this, memory) ==
  [arrays |-> [arrs EXCEPT ![this] =
                 IF Len(@) = 0 THEN <<memory>>
                 ELSE [@ EXCEPT ![Len(@)] = memory]],
   ref |-> this]

\* addMemory(memory) { this.memories.push(memory); return this; }
AddMemory(arrs, this, memory) ==
  [arrays |-> [arrs EXCEPT ![this] = Append(@, memory)], ref |-> this]

Responses ==
  << <<"That's a fascinating question! Let me think about that...">>,
     <<"I'm curious to explore this topic with you.">>,
     <<"From my perspective as Scholar, I find this intriguing.">>,
     <<"Let me share my thoughts on this...">>,
     <<"That's an excellent point to consider!">> >>

ResponseSuffix ==
  <<" ", "In the OPEN SOULS framework, I would process this through cognitive steps like internal monologue and external dialog. ",
    "My WorkingMemory would transform immutably with each interaction.">>

DemoMessages == {<<"hello">>, <<"what", "is", "memory">>}

\* The blueprint file is read, or the read throws and the default is used.
StandaloneInitialMemories ==
  {<<Entry(System, Blueprint)>>, <<Entry(System, DefaultBlueprint)>>}

(***************************************************************************)
(* WorkingMemory of @opensouls/core and the executor behind                 *)
(* createCognitiveStep.  Their code is not among the sources; they are      *)
(* modelled from the specification (sections 3, 4.1 and 4.2): a             *)
(* WorkingMemory is an immutable value, withMemory yields a new value with  *)
(* the entries appended and the identity carried forward, and a cognitive   *)
(* step yields the pair (newMemory, exposedValue) or fails.                 *)
(* `entityName` is the own property the runners attach with                 *)
(* Object.defineProperty; a value derived by withMemory does not have it.   *)
(***************************************************************************)
Undefined == "undefined"

\* JavaScript values other than entries are records with a `tag`: strings
\* (a text of tokens), plain objects, WorkingMemory values and pairs.
Str(text) == [tag |-> "string", text |-> text]
IsString(v) == v.tag = "string"
IsObject(v) == v.tag = "object"
\* the string whose text is the one token `label`
Label(label) == Str(<<label>>)

\* `${value}` inside a template literal
Interpolate(v) ==
  CASE v.tag = "string" -> v.text
    [] v.tag = "object" -> <<"[object Object]">>
    [] OTHER -> <<Undefined>>

NewWorkingMemory(soulName, memories) ==
  [tag |-> "WorkingMemory", soulName |-> soulName, memories |-> memories,
   entityName |-> Undefined]

IsWorkingMemory(x) == x.tag = "WorkingMemory"

\* withMemory(entryOrEntries), with the entries given as a sequence
WithMemory(memory, entries) ==
  [memory EXCEPT !.memories = @ \o entries, !.entityName = Undefined]

\* the pair [newMemory, value] a cognitive step resolves to
Pair(memory, value) == [tag |-> "Pair", memory |-> memory, value |-> value]

\* `({ entityName }: WorkingMemory)` and `memory.entityName`
EntityNameOf(memory) ==
  IF IsWorkingMemory(memory) THEN memory.entityName ELSE Undefined

\* `(memory as any).entityName || memory.soulName`
EntityOrSoulName(memory) ==
  IF EntityNameOf(memory) # Undefined THEN memory.entityName
  ELSE IF IsWorkingMemory(memory) THEN memory.soulName ELSE Undefined

\* Object.defineProperty(workingMemory, "entityName", { get() { return soulName } })
DefineEntityName(memory, soulName) == [memory EXCEPT !.entityName = soulName]

\* Array.prototype.indexOf, 0-based, -1 when absent
IndexOf(seq, x) ==
  IF \E i \in 1..Len(seq) : seq[i] = x
  THEN (CHOOSE i \in 1..Len(seq) : seq[i] = x /\ \A j \in 1..(i - 1) : seq[j] # x) - 1
  ELSE -1

(***************************************************************************)
(* What the step's caller may pass as options.postProcess.                  *)
(***************************************************************************)
DefaultPostProcess == "default"
\* part_001 lines 54-57 and 157-160, part_002 lines 104-107:
\*   [{ role: "assistant", content: thought }, thought]
VerbatimPostProcess == "verbatim"
\* part_001 lines 101-107: [{ role: "assistant", content: `I'll focus on ${choice}` }, choice]
FocusPostProcess == "focus"

CustomPostProcess(which, memory, response) ==
  IF which = FocusPostProcess
  THEN [entries |-> <<Entry(Assistant, <<"I'll focus on ">> \o Interpolate(response))>>,
        value |-> response]
  ELSE [entries |-> <<Entry(Assistant, Interpolate(response))>>, value |-> response]

(***************************************************************************)
(* soul/cognitiveSteps/decision.ts                                          *)
(***************************************************************************)
\* A plausible bug: the schema accepts any string.
DecisionSchemaAnyString(options, response) == IsString(response)

\* schema: z.enum(options.choices): the responses the schema accepts
DecisionSchema(options, response) ==
  /\ IsString(response)
  /\ \E i \in 1..Len(options.choices) : response = Label(options.choices[i])

\* options.choices.indexOf(choice)
ChoiceIndex(options, choice) ==
  IF Len(choice.text) = 1 THEN IndexOf(options.choices, choice.text[1]) ELSE -1

\* A plausible bug: the entry records the question instead of the choice.
DecisionPostProcessDropsChoice(options, memory, choice, now) ==
  [entries |-> <<Entry(Assistant, <<EntityNameOf(memory), " decided: ", options.question>>)>>,
   value |-> choice]

DecisionPostProcess(options, memory, choice, now) ==
  LET decisionMemory ==
        EntryWithMetadata(Assistant,
          <<EntityNameOf(memory), " decided: ">> \o Interpolate(choice),
          [type |-> "decision",
           question |-> options.question,
           choice |-> choice,
           choiceIndex |-> ChoiceIndex(options, choice),
           allChoices |-> options.choices,
           timestamp |-> ISOString(now)])
  IN IF options.postProcess # DefaultPostProcess
     THEN CustomPostProcess(options.postProcess, memory, choice)
     ELSE [entries |-> <<decisionMemory>>, value |-> choice]

(***************************************************************************)
(* soul/cognitiveSteps/internalMonologue.ts                                 *)
(***************************************************************************)
LowerCase(token) ==
  CASE token = "Scholar" -> "scholar"
    [] token = "SCHOLAR" -> "scholar"
    [] token = "Sage" -> "sage"
    [] token = "My name is" -> "my name is"
    [] token = "I love" -> "i love"
    [] token = "I have" -> "i have"
    [] OTHER -> token

IsWhitespace(token) == token \in {" ", "\n"}

RECURSIVE DropWhitespace(_)
DropWhitespace(text) ==
  IF Len(text) > 0 /\ IsWhitespace(Head(text)) THEN DropWhitespace(Tail(text)) ELSE text

\* thought.replace(new RegExp(`^${entityName}:?\\s*`, "i"), "")
StripEntityPrefix(entityName, thought) ==
  IF Len(thought) > 0 /\ LowerCase(Head(thought)) = LowerCase(entityName)
  THEN LET rest == Tail(thought)
           afterColon == IF Len(rest) > 0 /\ Head(rest) = ":" THEN Tail(rest) ELSE rest
       IN DropWhitespace(afterColon)
  ELSE thought

\* options.verb || "thinks"
MonologueVerb(options) == IF options.verb = Undefined THEN "thinks" ELSE options.verb

InternalMonologuePostProcess(options, memory, thought, now) ==
  LET verb == MonologueVerb(options)
      cleanThought == StripEntityPrefix(EntityNameOf(memory), thought.text)
      internalMemory ==
        EntryWithMetadata(Assistant,
          <<EntityNameOf(memory), " ", verb, ": ">> \o cleanThought,
          [type |-> "internal_monologue", verb |-> verb, timestamp |-> ISOString(now)])
  IN IF options.postProcess # DefaultPostProcess
     THEN CustomPostProcess(options.postProcess, memory, Str(cleanThought))
     ELSE [entries |-> <<internalMemory>>, value |-> Str(cleanThought)]

(***************************************************************************)
(* soul/cognitiveSteps/mentalQuery.ts                                       *)
(***************************************************************************)
\* options.verb || "considers"
QueryVerb(options) == IF options.verb = Undefined THEN "considers" ELSE options.verb

\* the structured schema: summary, details, confidence, optional sources
MentalQuerySchema(options, response) ==
  IF options.structuredResponse
  THEN /\ IsObject(response)
       /\ {"summary", "details", "confidence"} \subseteq DOMAIN response
       /\ response.confidence \in {"high", "medium", "low"}
  ELSE TRUE

Digit(i) == ToString(i)

\* details.map((d, i) => `${i + 1}. ${d}`), the lines then joined by "\n"
RECURSIVE NumberedLines(_, _)
NumberedLines(details, from) ==
  IF from > Len(details) THEN <<>>
  ELSE <<"\n", Digit(from), ". ", details[from]>> \o NumberedLines(details, from + 1)

RECURSIVE JoinComma(_)
JoinComma(list) ==
  IF Len(list) = 0 THEN <<>>
  ELSE IF Len(list) = 1 THEN <<list[1]>>
  ELSE <<list[1], ", ">> \o JoinComma(Tail(list))

FormattedQueryResponse(response) ==
  <<"Summary: ", response.summary, "\n", "\nKey Points:">>
    \o NumberedLines(response.details, 1)
    \o <<"\n", "\nConfidence: ", response.confidence, "\n">>
    \o (IF "sources" \in DOMAIN response THEN <<"\nSources: ">> \o JoinComma(response.sources) ELSE <<>>)

MentalQueryPostProcess(options, memory, response, now) ==
  IF options.structuredResponse /\ IsObject(response)
  THEN [entries |->
          <<EntryWithMetadata(Assistant,
              <<EntityOrSoulName(memory), " ", QueryVerb(options), ": ">>
                \o FormattedQueryResponse(response),
              [type |-> "mental_query", query |-> options.query, structured |-> TRUE,
               confidence |-> response.confidence, timestamp |-> ISOString(now)])>>,
        value |-> response]
  ELSE [entries |->
          <<EntryWithMetadata(Assistant,
              <<EntityOrSoulName(memory), " ", QueryVerb(options), ": ">>
                \o Interpolate(response),
              [type |-> "mental_query", query |-> options.query, structured |-> FALSE,
               timestamp |-> ISOString(now)])>>,
        value |-> response]

(***************************************************************************)
(* soul/cognitiveSteps/externalDialog.ts                                    *)
(***************************************************************************)
\* stripEntityAndVerb of @opensouls/core (not among the sources): removes a
\* leading `Entity verb:` from the text.
RECURSIVE AfterFirstColon(_)
AfterFirstColon(text) ==
  IF Len(text) = 0 THEN <<>>
  ELSE IF Head(text) = ":" THEN DropWhitespace(Tail(text))
  ELSE AfterFirstColon(Tail(text))

StripEntityAndVerb(text) ==
  IF \E i \in 1..Len(text) : text[i] = ":" THEN AfterFirstColon(text) ELSE text

\* schema: options.model === "reasoning" ? z.object({ thought, response }) : undefined
ExternalDialogSchema(options, response) ==
  IF options.model = "reasoning"
  THEN IsObject(response) /\ {"thought", "response"} \subseteq DOMAIN response
  ELSE TRUE

\* A plausible bug: the branch for the reasoning model is missing.
ExternalDialogPostProcessSpokenOnly(options, memory, response, now) ==
  LET cleanResponse == StripEntityAndVerb(Interpolate(response)) IN
    [entries |-> <<Entry(Assistant, cleanResponse)>>, value |-> Str(cleanResponse)]

ExternalDialogPostProcess(options, memory, response, now) ==
  IF options.model = "reasoning" /\ IsObject(response)
  THEN [entries |->
          <<Entry(Assistant, <<"[Internal: ">> \o response.thought \o <<"]">>),
            Entry(Assistant, StripEntityAndVerb(response.response))>>,
        value |-> Str(response.response)]
  ELSE LET cleanResponse == StripEntityAndVerb(Interpolate(response)) IN
       IF options.postProcess # DefaultPostProcess
       THEN CustomPostProcess(options.postProcess, memory, Str(cleanResponse))
       ELSE [entries |-> <<Entry(Assistant, cleanResponse)>>, value |-> Str(cleanResponse)]

(***************************************************************************)
(* soul/cognitiveSteps/perceive.ts                                          *)
(***************************************************************************)
\* schema: an object when analyzeEmotions or detectPatterns, else none
PerceiveSchema(options, response) ==
  IF options.analyzeEmotions \/ options.detectPatterns
  THEN /\ IsObject(response)
       /\ {"initialImpression", "details", "associations"} \subseteq DOMAIN response
       /\ options.analyzeEmotions => "emotionalResponse" \in DOMAIN response
       /\ options.detectPatterns => "patterns" \in DOMAIN response
  ELSE TRUE

\* list.join(", ")
PerceptionContent(response) ==
  IF IsObject(response)
  THEN <<response.initialImpression>>
       \o (IF Len(response.details) > 0
           THEN <<"\nI notice: ">> \o JoinComma(response.details) ELSE <<>>)
       \o (IF "emotionalResponse" \in DOMAIN response
           THEN <<"\nThis makes me feel ", response.emotionalResponse.primary, " (",
                  response.emotionalResponse.intensity, ", ",
                  response.emotionalResponse.valence, ")">>
           ELSE <<>>)
       \o (IF "patterns" \in DOMAIN response /\ Len(response.patterns) > 0
           THEN <<"\nPatterns: ">> \o JoinComma(response.patterns) ELSE <<>>)
       \o (IF Len(response.associations) > 0
           THEN <<"\nThis reminds me of: ">> \o JoinComma(response.associations) ELSE <<>>)
  ELSE Interpolate(response)

PerceivePostProcess(options, memory, response, now) ==
  [entries |->
     <<EntryWithMetadata(Assistant,
         <<EntityOrSoulName(memory), " perceives: ">> \o PerceptionContent(response),
         [type |-> "perception", stimulusType |-> options.type,
          timestamp |-> ISOString(now),
          analyzedEmotions |-> options.analyzeEmotions,
          detectedPatterns |-> options.detectPatterns])>>,
   value |-> response]

(***************************************************************************)
(* soul/cognitiveSteps/brainstorm.ts                                        *)
(***************************************************************************)
\* options.count || 5
DefaultIdeaCount == 5
IdeaCount(options) == IF options.count = 0 THEN DefaultIdeaCount ELSE options.count

\* schema: { ideas: array of exactly ideaCount ideas, theme, mostCreative }
BrainstormSchema(options, response) ==
  /\ IsObject(response)
  /\ {"ideas", "theme", "mostCreative"} \subseteq DOMAIN response
  /\ Len(response.ideas) = IdeaCount(options)
  /\ \A i \in 1..Len(response.ideas) : response.ideas[i].creativity \in 1..10

RECURSIVE SumCreativity(_)
SumCreativity(ideas) ==
  IF Len(ideas) = 0 THEN 0 ELSE Head(ideas).creativity + SumCreativity(Tail(ideas))

RECURSIVE FormattedIdeas(_, _)
FormattedIdeas(ideas, from) ==
  IF from > Len(ideas) THEN <<>>
  ELSE (IF from > 1 THEN <<"\n\n">> ELSE <<>>)
       \o <<Digit(from), ". ", ideas[from].idea, " (Creativity: ", ToString(ideas[from].creativity), "/10)">>
       \o (IF "feasibility" \in DOMAIN ideas[from]
           THEN <<" [Feasibility: ", ideas[from].feasibility, "]">> ELSE <<>>)
       \o <<"\n   ", ideas[from].description>>
       \o FormattedIdeas(ideas, from + 1)

BrainstormPostProcess(options, memory, response, now) ==
  [entries |->
     <<EntryWithMetadata(Assistant,
         <<EntityNameOf(memory), " brainstormed:\n\n">>
           \o FormattedIdeas(response.ideas, 1) \o <<"\n\nTheme: ", response.theme>>,
         [type |-> "brainstorm", topic |-> options.topic,
          ideaCount |-> Len(response.ideas),
          \* the average, kept as the fraction sum / length
          avgCreativity |-> <<SumCreativity(response.ideas), Len(response.ideas)>>,
          timestamp |-> ISOString(now)])>>,
   value |-> response]

(***************************************************************************)
(* soul/cognitiveSteps/reflect.ts                                           *)
(***************************************************************************)
ReflectFields == {"insights", "questions", "emotions", "growth", "futureIntentions"}

\* schema: an object when depth is "deep", else none
ReflectSchema(options, response) ==
  IF options.depth = "deep"
  THEN IsObject(response) /\ ReflectFields \subseteq DOMAIN response
  ELSE TRUE

RECURSIVE InsightLines(_)
InsightLines(insights) ==
  IF Len(insights) = 0 THEN <<>>
  ELSE <<"\n", "- ", Head(insights).insight, " [", Head(insights).significance, "]">>
       \o InsightLines(Tail(insights))

RECURSIVE DashLines(_)
DashLines(list) ==
  IF Len(list) = 0 THEN <<>>
  ELSE <<"\n", "- ", Head(list)>> \o DashLines(Tail(list))

ReflectionContent(options, response) ==
  IF IsObject(response) /\ options.depth = "deep"
  THEN <<"Deep Reflection:", "\n", "\nInsights:">>
       \o InsightLines(response.insights)
       \o <<"\n", "\nQuestions that arose:">>
       \o DashLines(response.questions)
       \o <<"\n", "\nEmotional journey: ", response.emotions.during, " -> ", response.emotions.now,
            "\n", "\nGrowth observed: ", response.growth,
            "\n", "\nFuture intentions:">>
       \o DashLines(response.futureIntentions)
  ELSE Interpolate(response)

ReflectPostProcess(options, memory, response, now) ==
  [entries |->
     <<EntryWithMetadata(Assistant,
         <<EntityNameOf(memory), " reflects: ">> \o ReflectionContent(options, response),
         [type |-> "reflection", topic |-> options.topic, depth |-> options.depth,
          focus |-> options.focusOn, timestamp |-> ISOString(now)])>>,
   value |-> response]

(***************************************************************************)
(* The executor: one invocation of a cognitive step on `memory`, given the  *)
(* outcome of the Processor call (a response, or a failure of the call).    *)
(***************************************************************************)
Responded(response) == [kind |-> "response", response |-> response]
ProcessorFailed == [kind |-> "error"]

StepSchema(step, options, response) ==
  CASE step = "decision" -> DecisionSchema(options, response)
    [] step = "mentalQuery" -> MentalQuerySchema(options, response)
    [] step = "externalDialog" -> ExternalDialogSchema(options, response)
    [] step = "perceive" -> PerceiveSchema(options, response)
    [] step = "brainstorm" -> BrainstormSchema(options, response)
    [] step = "reflect" -> ReflectSchema(options, response)
    [] OTHER -> TRUE

StepPostProcess(step, options, memory, response, now) ==
  CASE step = "decision" -> DecisionPostProcess(options, memory, response, now)
    [] step = "internalMonologue" -> InternalMonologuePostProcess(options, memory, response, now)
    [] step = "mentalQuery" -> MentalQueryPostProcess(options, memory, response, now)
    [] step = "externalDialog" -> ExternalDialogPostProcess(options, memory, response, now)
    [] step = "perceive" -> PerceivePostProcess(options, memory, response, now)
    [] step = "brainstorm" -> BrainstormPostProcess(options, memory, response, now)
    [] OTHER -> ReflectPostProcess(options, memory, response, now)

Failed(error) == [ok |-> FALSE, error |-> error]
Succeeded(pair) == [ok |-> TRUE, pair |-> pair]

RunStep(step, options, memory, outcome, now) ==
  IF ~IsWorkingMemory(memory) THEN Failed("TypeError")
  ELSE IF outcome.kind = "error" THEN Failed("ProcessorError")
  ELSE IF ~StepSchema(step, options, outcome.response) THEN Failed("ValidationError")
  ELSE LET post == StepPostProcess(step, options, memory, outcome.response, now) IN
       Succeeded(Pair(WithMemory(memory, post.entries), post.value))

(***************************************************************************)
(* One cognitive step invoked repeatedly with the same memory, the same     *)
(* options and a stubbed Processor that returns a fixed response.           *)
(***************************************************************************)
SoulNames == {"Scholar"}

\* direct-demo.ts decisionPhase
RunnerChoices == <<"learning", "teaching", "exploring", "emotional_support", "brainstorming">>
\* part_001 scholarAwakens
ScholarChoices == <<"learning", "teaching", "exploring", "emotional_support">>

RunnerQuestion ==
  <<"Based on the user's message and our conversation history, what type of interaction would be most helpful?">>
ScholarQuestion == <<"What type of interaction would be most appropriate?">>

DecisionOptions(question, choices, postProcess) ==
  [question |-> question, choices |-> choices, postProcess |-> postProcess]
MonologueOptions(instructions, verb, postProcess) ==
  [instructions |-> instructions, verb |-> verb, postProcess |-> postProcess]
QueryOptions(query, verb, structuredResponse, postProcess) ==
  [query |-> query, verb |-> verb, structuredResponse |-> structuredResponse,
   postProcess |-> postProcess]
DialogOptions(instructions, stream, model) ==
  [instructions |-> instructions, stream |-> stream, model |-> model,
   postProcess |-> DefaultPostProcess]
PerceiveOptions(stimulus) ==
  [stimulus |-> stimulus, type |-> "message", depth |-> "comprehensive",
   analyzeEmotions |-> FALSE, detectPatterns |-> FALSE]
BrainstormOptions(topic) == [topic |-> topic, count |-> 0]
ReflectOptions(topic, depth) == [topic |-> topic, depth |-> depth, focusOn |-> Undefined]
\* array.filter(keep): a new array; the receiver is left as it is
Filter(array, keep(_)) == [receiver |-> array, value |-> SelectSeq(array, keep)]

\* A plausible bug: splice(-n) instead of slice(-n), which takes the last n
\* elements out of the receiver.
Splice(array, n) ==
  [receiver |-> SubSeq(array, 1, Len(array) - Len(LastN(array, n))),
   value |-> LastN(array, n)]

\* array.slice(-n): a new array of the last n elements; the receiver is left
\* as it is
Slice(array, n) == [receiver |-> array, value |-> LastN(array, n)]

\* array.slice(0): a copy of the whole array
SliceAll(array) == [receiver |-> array, value |-> array]

\* .map((m) => `${m.role}: ${m.content}`).join("\n")
RECURSIVE ContextLines(_)
ContextLines(entries) ==
  IF Len(entries) = 0 THEN <<>>
  ELSE <<Head(entries).role, ": ">> \o Head(entries).content
       \o (IF Len(entries) > 1 THEN <<"\n">> ELSE <<>>) \o ContextLines(Tail(entries))

\* m.metadata?.type
MetadataType(m) == IF "metadata" \in DOMAIN m THEN m.metadata.type ELSE Undefined
IsPerception(m) == MetadataType(m) = "perception"
IsKeyEvent(m) == MetadataType(m) # Undefined \/ m.role = User
\* m.content.length > 50: of the contents the memories hold here, the
\* blueprint document
IsLongEntry(m) == m.content = Blueprint

\* command(memory): the prompt entry a step builds, and the array
\* memory.memories as the builder leaves it
StepCommand(step, options, memory) ==
  LET memories == memory.memories
      prompt(name, context) ==
        Entry(System, <<"Model the mind of ", name, ".", "\n">> \o context)
  IN CASE step = "decision" ->
            LET recent == Slice(memories, 5) IN
              [memories |-> recent.receiver,
               command |-> prompt(EntityNameOf(memory), ContextLines(recent.value))]
       [] step = "reflect" ->
            LET relevant == SliceAll(memories)
                keyEvents == Filter(relevant.value, IsKeyEvent)
                last == Slice(keyEvents.value, 15)
            IN [memories |-> relevant.receiver,
                command |-> prompt(EntityNameOf(memory), ContextLines(last.value))]
       [] step = "mentalQuery" ->
            LET long == Filter(memories, IsLongEntry)
                relevant == Slice(long.value, 10)
            IN [memories |-> long.receiver,
                command |-> prompt(EntityOrSoulName(memory), ContextLines(relevant.value))]
       [] step = "perceive" ->
            LET perceptions == Filter(memories, IsPerception)
                recent == Slice(perceptions.value, 3)
            IN [memories |-> perceptions.receiver,
                command |-> prompt(EntityOrSoulName(memory), ContextLines(recent.value))]
       [] OTHER ->
            [memories |-> memories, command |-> prompt(EntityNameOf(memory), <<>>)]

\* the options with the model-class hint `modelClass`
Hinted(options, modelClass) ==
  [name \in DOMAIN options \cup {"modelClass"} |->
     IF name = "modelClass" THEN modelClass ELSE options[name]]

\* What a Processor may answer.
Thoughts ==
  {Str(<<"They", " ", "seem", " ", "curious">>),
   Str(<<"Scholar", ":", " ", "They", " ", "seem", " ", "curious">>)}
StructuredAnswer ==
  [tag |-> "object", summary |-> "We spoke of memory", details |-> <<"immutability", "forks">>,
   confidence |-> "high"]
UnstructuredObject == [tag |-> "object", text |-> <<"free">>]
\* what the reasoning model answers externalDialog with
ReasonedReply ==
  [tag |-> "object", thought |-> <<"They", " ", "want", " ", "detail">>,
   response |-> <<"Scholar", " ", "said", ":", " ", "Tell", " ", "me", " ", "more">>]
\* what the Processor answers perceive with when emotions are analysed
FeltPerception ==
  [tag |-> "object", initialImpression |-> "A warm greeting", details |-> <<"short">>,
   associations |-> <<>>,
   emotionalResponse |-> [primary |-> "joy", intensity |-> "mild", valence |-> "positive"]]
Labels == {Label(RunnerChoices[i]) : i \in 1..Len(RunnerChoices)}
DecisionAnswers == Labels \cup {Label("other"), Str(<<>>), UnstructuredObject}
Idea(idea, creativity) ==
  [idea |-> idea, description |-> "why", creativity |-> creativity]
Ideas(ideas) == [tag |-> "object", ideas |-> ideas, theme |-> "play", mostCreative |-> 0]
DeepReflection ==
  [tag |-> "object",
   insights |-> <<[insight |-> "They learn by asking", significance |-> "major"]>>,
   questions |-> <<"What do they need?">>,
   emotions |-> [during |-> "curious", now |-> "calm"],
   growth |-> "more patient",
   futureIntentions |-> <<"listen more">>]

StepMemories ==
  LET base == NewWorkingMemory("Scholar", <<Entry(System, Blueprint)>>)
      asked == WithMemory(base, <<Entry(User, <<"hello">>)>>)
  IN {DefineEntityName(base, "Scholar"), DefineEntityName(asked, "Scholar"), asked}

StepCases ==
  [step : {"decision"},
   options : {DecisionOptions(RunnerQuestion, RunnerChoices, DefaultPostProcess),
              DecisionOptions(ScholarQuestion, ScholarChoices, FocusPostProcess)},
   response : DecisionAnswers]
  \cup
  [step : {"internalMonologue"},
   options : {MonologueOptions(<<"Reflect">>, Undefined, DefaultPostProcess),
              MonologueOptions(<<"Reflect">>, "contemplates", DefaultPostProcess),
              MonologueOptions(<<"Reflect">>, "ponders", VerbatimPostProcess)},
   response : Thoughts]
  \cup
  [step : {"mentalQuery"},
   options : {QueryOptions(<<"What did we discuss?">>, "recalls", FALSE, DefaultPostProcess),
              QueryOptions(<<"What did we discuss?">>, Undefined, TRUE, DefaultPostProcess)},
   response : Thoughts \cup {StructuredAnswer}]
  \cup
  [step : {"internalMonologue"},
   options : {Hinted(MonologueOptions(<<"Reflect">>, "contemplates", DefaultPostProcess),
                     "quality")},
   response : Thoughts]
  \cup
  [step : {"mentalQuery"},
   options : {Hinted(QueryOptions(<<"What did we discuss?">>, "recalls", FALSE,
                                  DefaultPostProcess), "fast")},
   response : Thoughts]
  \cup
  [step : {"externalDialog"},
   options : {DialogOptions(<<"Respond thoughtfully">>, FALSE, Undefined),
              DialogOptions(<<"Respond thoughtfully">>, FALSE, "quality")},
   response : Thoughts]
  \cup
  [step : {"externalDialog"},
   options : {DialogOptions(<<"Respond thoughtfully">>, FALSE, "reasoning")},
   response : {ReasonedReply, Str(<<"Scholar", " ", "said", ":", " ", "Tell", " ", "me", " ", "more">>)}]
  \cup
  [step : {"perceive"},
   options : {PerceiveOptions(<<"hello">>),
              [PerceiveOptions(<<"hello">>) EXCEPT !.analyzeEmotions = TRUE]},
   response : {Str(<<"A", " ", "greeting">>), FeltPerception}]
  \cup
  [step : {"brainstorm"},
   options : {BrainstormOptions(<<"creative solutions">>)},
   response : {Ideas(<<Idea("a", 7), Idea("b", 3), Idea("c", 9), Idea("d", 1), Idea("e", 5)>>),
               Ideas(<<Idea("a", 7), Idea("b", 3)>>)}]
  \cup
  [step : {"reflect"},
   options : {ReflectOptions(<<"this conversation">>, "deep"),
              ReflectOptions(<<"this conversation">>, "surface")},
   response : {DeepReflection, Str(<<"It", " ", "went", " ", "well">>)}]

\* options.modelClass
ModelClassIn(options) ==
  IF "modelClass" \in DOMAIN options THEN options.modelClass ELSE Undefined

\* The object the step's factory returns for `options`: its keys, and the
\* value under modelClass (undefined when the object has no such key).
StepConfiguration(step, options) ==
  CASE step = "internalMonologue" ->
         [keys |-> {"command", "postProcess", "modelClass"},
          modelClass |-> ModelClassIn(options)]
    [] step = "mentalQuery" ->
         [keys |-> {"command", "schema", "postProcess", "modelClass"},
          modelClass |-> ModelClassIn(options)]
    [] step = "reflect" ->
         [keys |-> {"command", "schema", "postProcess", "modelClass"},
          modelClass |-> IF options.depth = "deep" THEN "quality" ELSE Undefined]
    [] step = "externalDialog" ->
         [keys |-> {"command", "schema", "postProcess", "streamProcessor"},
          modelClass |-> Undefined]
    [] OTHER ->
         [keys |-> {"command", "schema", "postProcess"}, modelClass |-> Undefined]

NoLab == [step |-> "none", results |-> <<>>]

InitStep ==
  IF program = "step"
  THEN \E case \in StepCases, memory \in StepMemories :
         lab = [step |-> case.step, options |-> case.options, memory |-> memory,
                response |-> case.response, results |-> <<>>, configurations |-> <<>>,
                given |-> memory, commands |-> <<>>]
  ELSE IF program = "stream" THEN TRUE
  ELSE lab = NoLab

\* await step(memory, options), the Processor answering lab.response:
\* the factory is called with the options, the command is built from the
\* memory, and the response is validated and post-processed.  `lab.memory`
\* is the caller's memory object, `lab.given` its value before the first call.
Step_Run ==
  /\ program = "step"
  /\ Len(lab.results) < MaxRuns
  /\ LET built == StepCommand(lab.step, lab.options, lab.memory)
         memory == [lab.memory EXCEPT !.memories = built.memories]
     IN lab' = [lab EXCEPT
                  !.memory = memory,
                  !.commands = Append(@, built.command),
                  !.configurations = Append(@, StepConfiguration(lab.step, lab.options)),
                  !.results = Append(@, RunStep(lab.step, lab.options, memory,
                                                Responded(lab.response), clock))]
  /\ UNCHANGED <<program, clock, vStandalone, soul, scholar>>

(***************************************************************************)
(* local-soul-runner.ts: the LocalSoulRunner with persistent soul memory.   *)
(***************************************************************************)
\* this.workingMemory before initialize
NoMemory == [tag |-> "undefined"]
Entries(memory) == IF IsWorkingMemory(memory) THEN memory.memories ELSE <<>>

\* The soul memory store: a Map from keys to values.
EmptyStore == [key \in {} |-> Undefined]
StoreSet(store, key, value) ==
  [k \in DOMAIN store \cup {key} |-> IF k = key THEN value ELSE store[k]]
\* get("userName")
UserNameIn(store) == IF "userName" \in DOMAIN store THEN store.userName ELSE Undefined
\* A plausible bug: the count is not read back from the store.
ConversationCountInNoStore(store) == 0

\* get("conversationCount") || 0
ConversationCountIn(store) ==
  IF "conversationCount" \in DOMAIN store THEN store.conversationCount ELSE 0

\* get("userFacts") || []
UserFactsIn(store) == IF "userFacts" \in DOMAIN store THEN store.userFacts ELSE <<>>
\* get("conversationSummaries") || []
SummariesIn(store) ==
  IF "conversationSummaries" \in DOMAIN store THEN store.conversationSummaries ELSE <<>>

\* JSON.stringify(memories, null, 2) of the object built from the store.  The
\* runner stores strings, integers, and arrays and plain objects of these,
\* which are written member by member.
Stringify(store) == [tag |-> "json", members |-> store]
\* JSON.parse(data)
Parse(data) == data.members

\* The memory file: absent, or the text last written.
NoFile == [exists |-> FALSE]
File(data) == [exists |-> TRUE, data |-> data]

\* loadMemoriesFromFile(): the store the constructor ends with.  Reading or
\* parsing an existing file may throw; the error is logged and the store is
\* left empty.
LoadMemoriesFromFile(file) ==
  IF file.exists THEN {Parse(file.data), EmptyStore} ELSE {EmptyStore}

\* A plausible bug: the alias is not attached again after a clone.
EnsureEntityNameSkips(workingMemory, soulName) == workingMemory

\* ensureEntityName(): define the alias unless the object has it
EnsureEntityName(workingMemory, soulName) ==
  IF workingMemory.entityName = Undefined
  THEN DefineEntityName(workingMemory, soulName)
  ELSE workingMemory

\* memories.filter((m) => m.role === "user").pop()?.content
RECURSIVE LastUserMessage(_)
LastUserMessage(memories) ==
  IF Len(memories) = 0 THEN <<>>
  ELSE IF memories[Len(memories)].role = User THEN memories[Len(memories)].content
  ELSE LastUserMessage(SubSeq(memories, 1, Len(memories) - 1))

IsWord(token) == token \notin {" ", "\n", ".", ":", ", "}

\* /(?:my name is|i'm|i am|call me)\s+(\w+)/i : group 1 of the first match
NameIntroducers == {"my name is", "i'm", "i am", "call me"}
RECURSIVE DetectName(_)
DetectName(message) ==
  IF Len(message) < 3 THEN Undefined
  ELSE LET rest == DropWhitespace(Tail(message)) IN
       IF /\ LowerCase(Head(message)) \in NameIntroducers
          /\ IsWhitespace(message[2])
          /\ Len(rest) > 0
          /\ IsWord(Head(rest))
       THEN Head(rest)
       ELSE DetectName(Tail(message))

\* (.+?)(?:\.|$) : at least one token, then up to the first "." or the end
RECURSIVE UpToPeriod(_)
UpToPeriod(text) ==
  IF Len(text) = 0 THEN <<>>
  ELSE IF Head(text) = "." THEN <<".">>
  ELSE <<Head(text)>> \o UpToPeriod(Tail(text))
LazyToPeriod(text) == <<Head(text)>> \o UpToPeriod(Tail(text))

\* the whitespace tokens text starts with
LeadingWhitespace(text) == SubSeq(text, 1, Len(text) - Len(DropWhitespace(text)))

\* introducer \s+ (.+?)(?:\.|$) : match[0] of the first match, or <<>>
RECURSIVE MatchIntroduced(_, _)
MatchIntroduced(introducers, message) ==
  IF Len(message) < 3 THEN <<>>
  ELSE LET rest == DropWhitespace(Tail(message)) IN
       IF /\ LowerCase(Head(message)) \in introducers
          /\ IsWhitespace(message[2])
          /\ Len(rest) > 0
       THEN <<Head(message)>> \o LeadingWhitespace(Tail(message)) \o LazyToPeriod(rest)
       ELSE MatchIntroduced(introducers, Tail(message))

\* introducer \s+ link \s+ (.+?)(?:\.|$)
RECURSIVE MatchLinked(_, _, _)
MatchLinked(introducers, links, message) ==
  IF Len(message) < 5 THEN <<>>
  ELSE LET rest == DropWhitespace(Tail(message))
           tail == IF Len(rest) > 0 THEN MatchIntroduced(links, rest) ELSE <<>>
       IN IF /\ LowerCase(Head(message)) \in introducers
             /\ IsWhitespace(message[2])
             /\ Len(rest) > 0
             /\ LowerCase(Head(rest)) \in links
             /\ Len(tail) > 0
             /\ tail[1] = Head(rest)
          THEN <<Head(message)>> \o LeadingWhitespace(Tail(message)) \o tail
          ELSE MatchLinked(introducers, links, Tail(message))

\* the position of the first link token that has whitespace on both sides and
\* text after it, or 0
FirstLink(links, text) ==
  LET at == {i \in 2..(Len(text) - 2) :
               /\ LowerCase(text[i]) \in links
               /\ IsWhitespace(text[i - 1])
               /\ IsWhitespace(text[i + 1])
               /\ i > 2}
  IN IF at = {} THEN 0 ELSE CHOOSE i \in at : \A j \in at : i <= j

\* my (?:favorite|favourite)\s+(.+?)\s+(?:is|are)\s+(.+?)(?:\.|$)
RECURSIVE MatchFavorite(_)
MatchFavorite(message) ==
  IF Len(message) < 7 THEN <<>>
  ELSE LET rest == DropWhitespace(Tail(message))
           link == FirstLink({"is", "are"}, rest)
           after == IF link > 0
                    THEN DropWhitespace(SubSeq(rest, link + 1, Len(rest))) ELSE <<>>
       IN IF /\ LowerCase(Head(message)) \in {"my favorite", "my favourite"}
             /\ IsWhitespace(message[2])
             /\ link > 0
             /\ Len(after) > 0
          THEN <<Head(message)>> \o LeadingWhitespace(Tail(message))
               \o SubSeq(rest, 1, Len(rest) - Len(after)) \o LazyToPeriod(after)
          ELSE MatchFavorite(Tail(message))

\* match[0] for each of the four factPatterns, in order; <<>> where none
FactMatches(message) ==
  << MatchIntroduced({"i like", "i love", "i enjoy", "i prefer"}, message),
     MatchFavorite(message),
     MatchLinked({"i work", "i am", "i do"}, {"as", "in", "at"}, message),
     MatchIntroduced({"i have", "i own"}, message) >>

\* A plausible bug: the fact is pushed without the `includes` test.
RECURSIVE LearnFactsAgain(_, _)
LearnFactsAgain(store, matches) ==
  IF Len(matches) = 0 THEN <<>>
  ELSE LET fact == Head(matches)
           next == StoreSet(store, "userFacts", Append(UserFactsIn(store), fact))
       IN IF Len(fact) > 0
          THEN <<next>> \o LearnFactsAgain(next, Tail(matches))
          ELSE LearnFactsAgain(store, Tail(matches))

\* The store after each `set` of the fact loop, in order.
RECURSIVE LearnFacts(_, _)
LearnFacts(store, matches) ==
  IF Len(matches) = 0 THEN <<>>
  ELSE LET fact == Head(matches)
           currentFacts == UserFactsIn(store)
       IN IF Len(fact) > 0 /\ fact \notin Range(currentFacts)
          THEN LET next == StoreSet(store, "userFacts", Append(currentFacts, fact))
               IN <<next>> \o LearnFacts(next, Tail(matches))
          ELSE LearnFacts(store, Tail(matches))

\* the last element, or `otherwise` for the empty sequence
LastOr(seq, otherwise) == IF Len(seq) = 0 THEN otherwise ELSE seq[Len(seq)]

\* saveMemoriesToFile() after each `set`: each write succeeds or its error is
\* swallowed, so the file ends as it was or as one of the stores written.
FilesAfter(file, stores) ==
  {file} \cup {File(Stringify(stores[i])) : i \in 1..Len(stores)}

\* texts.join(", ")
RECURSIVE JoinTexts(_)
JoinTexts(texts) ==
  IF Len(texts) = 0 THEN <<>>
  ELSE IF Len(texts) = 1 THEN texts[1]
  ELSE texts[1] \o <<", ">> \o JoinTexts(Tail(texts))

RunnerSystemPrompt == <<"You are running locally. Engage naturally with the user.">>
RunnerFallback ==
  <<"I apologize, but I'm having trouble formulating a response. Could you please rephrase your message?">>
\* a summary is stored when the conversation number is a multiple of this
SummaryEvery == 5

\* A plausible bug: the test is made on the count before it is raised.
IsMilestoneBeforeCounting(number) == (number - 1) % SummaryEvery = 0

\* (conversationCount + 1) % 5 === 0
IsMilestone(number) == number % SummaryEvery = 0

\* What the user may type.
Messages ==
  {<<"hello">>, <<"My name is", " ", "Ada", ".">>,
   <<"I love", " ", "chess", ".", " ", "I have", " ", "a cat">>}
\* What the memory file may hold when the runner is constructed.
StoredFiles ==
  {NoFile,
   File(Stringify([userName |-> "Ada", conversationCount |-> SummaryEvery - 1])),
   File(Stringify([userName |-> "Bob", conversationCount |-> 2 * SummaryEvery - 1,
                   conversationSummaries |->
                     <<[conversationNumber |-> SummaryEvery,
                        timestamp |-> ISOString(0),
                        messageCount |-> 2 * SummaryEvery + 2]>>]))}

\* What the Processor may do with a call.
MonologueOutcomes ==
  {Responded(Str(<<"Scholar", ":", " ", "They", " ", "seem", " ", "curious">>)), ProcessorFailed}
DialogOutcomes ==
  {Responded(Str(<<"Scholar", " ", "said", ":", " ", "Tell", " ", "me", " ", "more">>)),
   ProcessorFailed}

\* A call of a cognitive step by a runner: the step, the phase that makes it,
\* the memory passed to it, how the call ended and the memory it resolved to.
Pending == "pending"
Call(step, phase, memory) ==
  [step |-> step, phase |-> phase, memory |-> memory, outcome |-> Pending,
   result |-> NoMemory]
\* `await step(this.workingMemory, options)`: the call is made
Calls(s, step, phase) == [s EXCEPT !.calls = Append(@, Call(step, phase, s.workingMemory))]
\* the awaited call resolved to [memory, value]
Returned(s, memory) ==
  [s EXCEPT !.calls[Len(s.calls)] = [@ EXCEPT !.outcome = "returned", !.result = memory]]
\* the awaited call threw `error`
Threw(s, error) == [s EXCEPT !.calls[Len(s.calls)] = [@ EXCEPT !.outcome = error]]
\* the errors the calls of the message threw, in order
ErrorsOf(calls) ==
  LET threw(call) == call.outcome \notin {Pending, "returned"}
      failed == SelectSeq(calls, threw)
  IN [i \in 1..Len(failed) |-> failed[i].outcome]

\* What the caller of processMessage sees when the promise settles.
Settled(busy, errors, outcome) == [busy |-> busy, errors |-> errors, outcome |-> outcome]

\* A plausible bug: the catch of processMessage throws the error again.
ResolvesOrRethrows(s) ==
  [s EXCEPT !.host =
     Append(@, Settled(FALSE, ErrorsOf(s.calls),
                       IF Len(ErrorsOf(s.calls)) > 0 THEN "rejected" ELSE "resolved"))]

\* processMessage's try / catch / finally: every error is logged in the catch,
\* so the promise resolves
Resolves(s) ==
  [s EXCEPT !.host = Append(@, Settled(FALSE, ErrorsOf(s.calls), "resolved"))]

\* A plausible bug: the guard is never taken.
BusyNever(s) == FALSE

\* `if (this.isProcessing)`
Busy(s) == s.isProcessing

\* the early `return` of processMessage while a message is being processed
Dropped(s) ==
  [s EXCEPT !.delivered = @ + 1, !.host = Append(@, Settled(TRUE, <<>>, "resolved"))]

NoSoul == [soulName |-> Undefined]

\* new LocalSoulRunner(soulName): loadMemoriesFromFile() fills the store with
\* `loaded`
NewRunner(soulName, file, loaded) ==
  [soulName |-> soulName,
   initialized |-> FALSE,
   workingMemory |-> NoMemory,
   stepsLoaded |-> FALSE,
   isProcessing |-> FALSE,
   soulMemoryStore |-> loaded,
   memoryFile |-> file,
   successor |-> NoSoul,
   pc |-> "idle",
   locals |-> <<>>,
   spoken |-> <<>>,
   calls |-> <<>>,
   host |-> <<>>,
   delivered |-> 0,
   accepted |-> 0]

\* the process that holds the runner is running
Alive(s) == s.successor = NoSoul

\* initialize(): the blueprint is read or the read throws; the steps are
\* imported or the import's error is swallowed
R_Initialize(blueprintReadable, stepsImportable) ==
  /\ program = "runner"
  /\ Alive(soul)
  /\ ~soul.initialized
  /\ ~soul.isProcessing
  /\ soul' =
       IF blueprintReadable
       THEN [soul EXCEPT
               !.initialized = TRUE,
               !.workingMemory =
                  DefineEntityName(
                    NewWorkingMemory(soul.soulName,
                      <<Entry(System, Blueprint), Entry(System, RunnerSystemPrompt)>>),
                    soul.soulName),
               !.stepsLoaded = stepsImportable]
       ELSE [soul EXCEPT !.initialized = TRUE]
  /\ UNCHANGED <<program, clock, vStandalone, lab, scholar>>

\* processMessage(message), up to the first call of a cognitive step
R_ProcessMessage(message) ==
  /\ program = "runner"
  /\ Alive(soul)
  /\ soul.delivered < MaxMessages
  /\ soul' =
       IF Busy(soul)
       THEN Dropped(soul)
       ELSE IF ~IsWorkingMemory(soul.workingMemory)
       \* withMemory of undefined throws; the error is logged
       THEN Resolves([soul EXCEPT !.delivered = @ + 1, !.calls = <<>>])
       ELSE LET store == soul.soulMemoryStore
                accepted ==
                  [soul EXCEPT
                     !.delivered = @ + 1,
                     !.accepted = @ + 1,
                     !.calls = <<>>,
                     !.workingMemory =
                        EnsureEntityName(WithMemory(@, <<Entry(User, message)>>),
                                         soul.soulName),
                     !.locals = [userName |-> UserNameIn(store),
                                 conversationCount |-> ConversationCountIn(store),
                                 userFacts |-> UserFactsIn(store)]]
            IN IF soul.stepsLoaded
               THEN Calls([accepted EXCEPT !.isProcessing = TRUE, !.pc = "monologue"],
                          "internalMonologue", "step 1")
               ELSE Resolves([accepted EXCEPT !.isProcessing = FALSE, !.pc = "idle"])
  /\ UNCHANGED <<program, clock, vStandalone, lab, scholar>>

MonologueInstructions(locals) ==
  <<"Reflect on the user's message and your purpose">>
  \o (IF locals.userName # Undefined
      THEN <<". Remember, you're talking to ", locals.userName>>
           \o (IF Len(locals.userFacts) > 0
               THEN <<". You know: ">> \o JoinTexts(LastN(locals.userFacts, 3))
               ELSE <<>>)
      ELSE <<>>)

\* A plausible bug: the catch block of Step 1 passes the error on, so that
\* the process ends without Step 2.
MonologueFailedEndsTheProcess(s, error) ==
  Resolves([Threw(s, error) EXCEPT !.isProcessing = FALSE, !.pc = "idle"])

\* the catch block of Step 1 logs the error; Step 2 follows
MonologueFailed(s, error) ==
  Calls([Threw(s, error) EXCEPT !.pc = "dialog"], "externalDialog", "step 2")

\* runCognitiveProcess, Step 1: the internalMonologue call returns or throws
R_MonologueReturns(outcome) ==
  /\ program = "runner"
  /\ Alive(soul)
  /\ soul.pc = "monologue"
  /\ LET result == RunStep("internalMonologue",
                     MonologueOptions(MonologueInstructions(soul.locals), "contemplates",
                                      DefaultPostProcess),
                     soul.workingMemory, outcome, clock)
     IN IF result.ok
        THEN LET newMemory == EnsureEntityName(result.pair.memory, soul.soulName)
                 lastUserMessage == LastUserMessage(newMemory.memories)
                 detectedName == DetectName(lastUserMessage)
                 named == IF soul.locals.userName = Undefined /\ detectedName # Undefined
                          THEN <<StoreSet(soul.soulMemoryStore, "userName", detectedName)>>
                          ELSE <<>>
                 learned == LearnFacts(LastOr(named, soul.soulMemoryStore),
                                       FactMatches(lastUserMessage))
                 stores == named \o learned
             IN \E file \in FilesAfter(soul.memoryFile, stores) :
                  soul' = Calls([Returned(soul, newMemory) EXCEPT
                                   !.workingMemory = newMemory,
                                   !.soulMemoryStore = LastOr(stores, @),
                                   !.memoryFile = file,
                                   !.pc = "dialog"],
                                "externalDialog", "step 2")
        ELSE soul' = MonologueFailed(soul, result.error)
  /\ UNCHANGED <<program, clock, vStandalone, lab, scholar>>

RunnerDialogInstructions(locals) ==
  <<"Respond thoughtfully to the user, demonstrating your understanding and curiosity">>
  \o (IF locals.userName # Undefined
      THEN <<". Address them as ", locals.userName, " when appropriate">> ELSE <<>>)
  \o (IF locals.conversationCount > 0
      THEN <<". This is conversation #", ToString(locals.conversationCount + 1), " with them">>
      ELSE <<>>)

\* runCognitiveProcess, Step 2: the externalDialog call returns or throws;
\* then processMessage's finally block
R_DialogReturns(outcome) ==
  /\ program = "runner"
  /\ Alive(soul)
  /\ soul.pc = "dialog"
  /\ LET result == RunStep("externalDialog",
                     DialogOptions(RunnerDialogInstructions(soul.locals), FALSE, Undefined),
                     soul.workingMemory, outcome, clock)
         number == soul.locals.conversationCount + 1
     IN IF result.ok
        THEN LET newMemory == EnsureEntityName(result.pair.memory, soul.soulName)
                 counted == StoreSet(soul.soulMemoryStore, "conversationCount", number)
                 summarized ==
                   IF IsMilestone(number)
                   THEN <<StoreSet(counted, "conversationSummaries",
                            Append(SummariesIn(counted),
                                   [conversationNumber |-> number,
                                    timestamp |-> ISOString(clock),
                                    messageCount |-> Len(newMemory.memories)]))>>
                   ELSE <<>>
                 stores == <<counted>> \o summarized
             IN \E file \in FilesAfter(soul.memoryFile, stores) :
                  soul' = Resolves([Returned(soul, newMemory) EXCEPT
                                      !.workingMemory = newMemory,
                                      !.spoken = Append(@, result.pair.value.text),
                                      !.soulMemoryStore = LastOr(stores, @),
                                      !.memoryFile = file,
                                      !.isProcessing = FALSE,
                                      !.pc = "idle"])
        ELSE soul' = Resolves([Threw(soul, result.error) EXCEPT
                                 !.workingMemory =
                                    EnsureEntityName(
                                      WithMemory(@, <<Entry(Assistant, RunnerFallback)>>),
                                      soul.soulName),
                                 !.spoken = Append(@, RunnerFallback),
                                 !.isProcessing = FALSE,
                                 !.pc = "idle"])
  /\ UNCHANGED <<program, clock, vStandalone, lab, scholar>>

\* The process ends and the host starts again: main() constructs a new
\* LocalSoulRunner with the same name, whose constructor loads the file the
\* old runner left.  The old runner takes no further step.
R_Restart ==
  /\ program = "runner"
  /\ Alive(soul)
  /\ \E loaded \in LoadMemoriesFromFile(soul.memoryFile) :
       soul' = [soul EXCEPT
                  !.successor = NewRunner(soul.soulName, soul.memoryFile, loaded)]
  /\ UNCHANGED <<program, clock, vStandalone, lab, scholar>>

(***************************************************************************)
(* local-soul-runner.ts: several LocalSoulRunners of one installation, each *)
(* with the memory file its constructor names.  `soul.disk` is the          *)
(* directory .soul-memories, `soul.stores` the soulMemoryStore of each      *)
(* constructed runner and `soul.written` the values each runner has set.    *)
(***************************************************************************)
\* the names given to the constructor
HostedNames == {"Scholar", "SCHOLAR", "Sage"}
\* the values the runners set under "userName"
HostedValues == {"Ada", "Bob"}

\* join(memoryDir, `${soulName.toLowerCase()}-memory.json`)
MemoryFilePath(soulName) == <<".soul-memories", LowerCase(soulName), "-memory.json">>

NewDisk ==
  [disk |-> [path \in {MemoryFilePath(soulName) : soulName \in HostedNames} |-> NoFile],
   constructed |-> {},
   stores |-> [soulName \in HostedNames |-> EmptyStore],
   written |-> [soulName \in HostedNames |-> {}]]

\* new LocalSoulRunner(soulName)
M_Construct(soulName) ==
  /\ program = "souls"
  /\ soulName \notin soul.constructed
  /\ \E loaded \in LoadMemoriesFromFile(soul.disk[MemoryFilePath(soulName)]) :
       soul' = [soul EXCEPT !.constructed = @ \cup {soulName},
                            !.stores[soulName] = loaded]
  /\ UNCHANGED <<program, clock, vStandalone, lab, scholar>>

\* getSoulMemoryInterface().set("userName", value) of the runner `soulName`
M_Set(soulName, value) ==
  /\ program = "souls"
  /\ soulName \in soul.constructed
  /\ value \notin soul.written[soulName]
  /\ LET store == StoreSet(soul.stores[soulName], "userName", value)
         path == MemoryFilePath(soulName)
     IN \E file \in FilesAfter(soul.disk[path], <<store>>) :
          soul' = [soul EXCEPT !.stores[soulName] = store,
                               !.disk[path] = file,
                               !.written[soulName] = @ \cup {value}]
  /\ UNCHANGED <<program, clock, vStandalone, lab, scholar>>

(***************************************************************************)
(* direct-demo.ts: the LocalSoulRunner with the five-phase cognitive        *)
(* process.  `soul.trace` records, for the message being processed, the     *)
(* calls and returns of the decision step and the subprocess entered.       *)
(***************************************************************************)
EnhancedSystemPrompt == <<"Engage naturally with the user.">>
EnhancedFallback ==
  <<"I apologize, but I'm having trouble processing right now. Could you please rephrase your message? I'm here to help and learn with you.">>

DecisionCalled == "decision called"
DecisionReturned == "decision returned"
Subprocesses ==
  {"learningSubprocess", "teachingSubprocess", "emotionalSupportSubprocess",
   "brainstormingSubprocess", "explorationSubprocess"}

\* direct-demo.ts subprocessPhase: the switch over the interaction mode.
SubprocessPhase(interactionMode) ==
  CASE interactionMode = "learning" -> "learningSubprocess"
    [] interactionMode = "teaching" -> "teachingSubprocess"
    [] interactionMode = "emotional_support" -> "emotionalSupportSubprocess"
    [] interactionMode = "brainstorming" -> "brainstormingSubprocess"
    [] OTHER -> "explorationSubprocess"


\* The step a subprocess calls before generateResponse, and its options.
SubprocessStep(subprocess) ==
  CASE subprocess = "learningSubprocess" ->
         [step |-> "mentalQuery",
          options |-> QueryOptions(<<"What can I learn about this user?">>, "investigates",
                                   FALSE, DefaultPostProcess)]
    [] subprocess = "teachingSubprocess" ->
         [step |-> "mentalQuery",
          options |-> QueryOptions(<<"What teaching approach would work best for this user?">>,
                                   "strategizes", FALSE, DefaultPostProcess)]
    [] subprocess = "emotionalSupportSubprocess" ->
         [step |-> "internalMonologue",
          options |-> MonologueOptions(<<"Feel deeply for the user's emotional state.">>,
                                       "empathizes", DefaultPostProcess)]
    [] subprocess = "brainstormingSubprocess" ->
         [step |-> "brainstorm",
          options |-> BrainstormOptions(
                        <<"creative solutions and innovative ideas for the user's interests">>)]
    [] OTHER ->
         [step |-> "mentalQuery",
          options |-> QueryOptions(<<"What fascinating topics could we explore together?">>,
                                   "wonders", FALSE, DefaultPostProcess)]

\* The instructions a subprocess gives generateResponse.
SubprocessInstructions(subprocess) ==
  CASE subprocess = "learningSubprocess" -> <<"Focus on learning about the user.">>
    [] subprocess = "teachingSubprocess" -> <<"Focus on teaching effectively.">>
    [] subprocess = "emotionalSupportSubprocess" -> <<"Provide emotional support.">>
    [] subprocess = "brainstormingSubprocess" -> <<"Engage in creative brainstorming.">>
    [] OTHER -> <<"Engage in curious exploration.">>

\* get("userInterests") || []
UserInterestsIn(store) ==
  IF "userInterests" \in DOMAIN store THEN store.userInterests ELSE <<>>

\* userMessages: the user entries' contents joined by " "
RECURSIVE JoinUserMessages(_)
JoinUserMessages(memories) ==
  IF Len(memories) = 0 THEN <<>>
  ELSE LET rest == JoinUserMessages(Tail(memories)) IN
       IF Head(memories).role # User THEN rest
       ELSE IF Len(rest) = 0 THEN Head(memories).content
       ELSE Head(memories).content \o <<" ">> \o rest

\* /my name is (\w+)|i'm (\w+)|call me (\w+)/i : the group of the first match
RECURSIVE ExtractName(_)
ExtractName(text) ==
  IF Len(text) < 3 THEN Undefined
  ELSE IF /\ LowerCase(Head(text)) \in {"my name is", "i'm", "call me"}
          /\ text[2] = " "
          /\ IsWord(text[3])
       THEN text[3]
       ELSE ExtractName(Tail(text))

\* userMessages.includes(needle): the tokens of this model that contain it
TokensIncluding(needle) ==
  IF needle = "love" THEN {"love", "I love", "i love"} ELSE {needle}
Includes(text, needle) == \E i \in 1..Len(text) : text[i] \in TokensIncluding(needle)

\* extractAndStoreUserInfo()
ExtractAndStoreUserInfo(s) ==
  LET userMessages == JoinUserMessages(s.workingMemory.memories)
      name == ExtractName(userMessages)
      named == IF name # Undefined THEN StoreSet(s.soulMemory, "userName", name)
               ELSE s.soulMemory
      interests == UserInterestsIn(named)
  IN [s EXCEPT !.soulMemory =
        IF Includes(userMessages, "love") \/ Includes(userMessages, "interested")
        THEN StoreSet(named, "userInterests", Append(interests, "general_conversation"))
        ELSE named]

\* A plausible bug: the fallback starts a new memory instead of extending it.
HandleCognitiveErrorStartsOver(s) ==
  [s EXCEPT
     !.spoken = Append(@, EnhancedFallback),
     !.workingMemory =
        EnsureEntityName(
          NewWorkingMemory(s.soulName, <<Entry(Assistant, EnhancedFallback)>>), s.soulName)]

\* A plausible bug: the fallback is committed with the role of the entries
\* initialize creates.
HandleCognitiveErrorAsSystemEntry(s) ==
  [s EXCEPT
     !.spoken = Append(@, EnhancedFallback),
     !.workingMemory =
        EnsureEntityName(WithMemory(@, <<Entry(System, EnhancedFallback)>>), s.soulName)]

\* A plausible bug: the handler calls the step that failed once more before
\* it gives the fallback reply.
HandleCognitiveErrorTriesAgain(s) ==
  LET failed == s.calls[Len(s.calls)] IN
    [Threw(Calls(s, failed.step, failed.phase), "ProcessorError") EXCEPT
       !.spoken = Append(@, EnhancedFallback),
       !.workingMemory =
          EnsureEntityName(WithMemory(@, <<Entry(Assistant, EnhancedFallback)>>), s.soulName)]

\* A plausible bug: the error is only logged and no reply is given.
HandleCognitiveErrorSilently(s) == s

\* handleCognitiveError()
HandleCognitiveError(s) ==
  [s EXCEPT
     !.spoken = Append(@, EnhancedFallback),
     !.workingMemory =
        EnsureEntityName(WithMemory(@, <<Entry(Assistant, EnhancedFallback)>>), s.soulName)]

\* processMessage's finally block
\* A plausible bug: the flag is reset at the end of the try block only, so
\* it is not reset when the process ends with an error.
FinishedWithoutFinally(s) ==
  Resolves([s EXCEPT !.isProcessing = (ErrorsOf(s.calls) # <<>>), !.pc = "idle"])

Finished(s) == Resolves([s EXCEPT !.isProcessing = FALSE, !.pc = "idle"])

\* reflectionPhase(), up to the call of reflect
EnterReflection(s) ==
  IF s.stepsLoaded THEN Calls([s EXCEPT !.pc = "reflect"], "reflect", "reflection")
  ELSE Finished(ExtractAndStoreUserInfo(s))

\* A plausible bug: a case without `break` falls through into the default.
EnterSubprocessFallsThrough(s, interactionMode) ==
  LET subprocess == SubprocessPhase(interactionMode)
      entered == [s EXCEPT !.interactionMode = interactionMode,
                           !.trace = @ \o <<subprocess, "explorationSubprocess">>]
  IN IF s.stepsLoaded
     THEN Calls([entered EXCEPT !.pc = "subprocess"], SubprocessStep(subprocess).step,
                "subprocess")
     ELSE EnterReflection(entered)

\* subprocessPhase(interactionMode), up to the subprocess's call of its step
EnterSubprocess(s, interactionMode) ==
  LET subprocess == SubprocessPhase(interactionMode)
      entered == [s EXCEPT !.interactionMode = interactionMode,
                           !.trace = Append(@, subprocess)]
  IN IF s.stepsLoaded
     THEN Calls([entered EXCEPT !.pc = "subprocess"], SubprocessStep(subprocess).step,
                "subprocess")
     ELSE EnterReflection(entered)

\* decisionPhase(), up to the call of decision; "exploring" without the step
EnterDecision(s) ==
  IF s.stepsLoaded
  THEN Calls([s EXCEPT !.pc = "decision", !.trace = Append(@, DecisionCalled)],
             "decision", "decision")
  ELSE EnterSubprocess(s, "exploring")

\* memoryPhase(), up to the call of mentalQuery
EnterMemoryPhase(s) ==
  LET userName == UserNameIn(s.soulMemory)
      conversationCount == ConversationCountIn(s.soulMemory)
      read == [s EXCEPT !.locals = [userName |-> userName,
                                    conversationCount |-> conversationCount]]
  IN IF (userName # Undefined \/ conversationCount > 0) /\ s.stepsLoaded
     THEN Calls([read EXCEPT !.pc = "recall"], "mentalQuery", "memory")
     ELSE EnterDecision([read EXCEPT !.soulMemory =
                           StoreSet(@, "conversationCount", conversationCount + 1)])

\* What the Processor may do with each call of the five-phase process.
PerceiveOutcomes == {Responded(Str(<<"A", " ", "greeting">>)), ProcessorFailed}
QueryOutcomes == {Responded(Str(<<"We", " ", "spoke", " ", "before">>)), ProcessorFailed}
DecisionOutcomes ==
  {Responded(label) : label \in Labels} \cup {Responded(Label("other")), ProcessorFailed}
BrainstormOutcomes ==
  {Responded(Ideas(<<Idea("a", 7), Idea("b", 3), Idea("c", 9), Idea("d", 1), Idea("e", 5)>>)),
   Responded(Ideas(<<Idea("a", 7), Idea("b", 3)>>)),
   ProcessorFailed}
ReflectOutcomes ==
  {Responded(DeepReflection), Responded(Str(<<"It", " ", "went", " ", "well">>)),
   ProcessorFailed}
SubprocessOutcomes(subprocess) ==
  CASE subprocess = "brainstormingSubprocess" -> BrainstormOutcomes
    [] subprocess = "emotionalSupportSubprocess" -> MonologueOutcomes
    [] OTHER -> QueryOutcomes

NewEnhancedRunner(soulName) ==
  [soulName |-> soulName,
   initialized |-> FALSE,
   workingMemory |-> NoMemory,
   stepsLoaded |-> FALSE,
   isProcessing |-> FALSE,
   soulMemory |-> EmptyStore,
   pc |-> "idle",
   locals |-> <<>>,
   interactionMode |-> Undefined,
   trace |-> <<>>,
   spoken |-> <<>>,
   calls |-> <<>>,
   host |-> <<>>,
   delivered |-> 0,
   accepted |-> 0]

\* initialize() of direct-demo.ts
E_Initialize(blueprintReadable, stepsImportable) ==
  /\ program = "enhanced"
  /\ ~soul.initialized
  /\ ~soul.isProcessing
  /\ soul' =
       IF blueprintReadable
       THEN [soul EXCEPT
               !.initialized = TRUE,
               !.workingMemory =
                  DefineEntityName(
                    NewWorkingMemory(soul.soulName,
                      <<Entry(System, Blueprint), Entry(System, EnhancedSystemPrompt)>>),
                    soul.soulName),
               !.stepsLoaded = stepsImportable]
       ELSE [soul EXCEPT !.initialized = TRUE]
  /\ UNCHANGED <<program, clock, vStandalone, lab, scholar>>

\* processMessage(message), up to the first call of a cognitive step
E_ProcessMessage(message) ==
  /\ program = "enhanced"
  /\ soul.delivered < MaxMessages
  /\ soul' =
       IF Busy(soul)
       THEN Dropped(soul)
       ELSE IF ~IsWorkingMemory(soul.workingMemory)
       \* withMemory of undefined throws; the error is logged
       THEN Resolves([soul EXCEPT !.delivered = @ + 1, !.calls = <<>>])
       ELSE LET accepted ==
                  [soul EXCEPT
                     !.delivered = @ + 1,
                     !.accepted = @ + 1,
                     !.isProcessing = TRUE,
                     !.calls = <<>>,
                     !.trace = <<>>,
                     !.interactionMode = Undefined,
                     !.workingMemory =
                        EnsureEntityName(WithMemory(@, <<Entry(User, message)>>),
                                         soul.soulName)]
            IN IF soul.stepsLoaded
               THEN Calls([accepted EXCEPT !.pc = "perceive"], "perceive", "perception")
               ELSE EnterMemoryPhase(accepted)
  /\ UNCHANGED <<program, clock, vStandalone, lab, scholar>>

\* One awaited call of a cognitive step by the five-phase process returns or
\* throws.  `onSuccess` continues the process from the new memory; an error
\* reaches the catch of runCognitiveProcess.
StepReturns(step, options, outcome, onSuccess(_, _)) ==
  LET result == RunStep(step, options, soul.workingMemory, outcome, clock) IN
    IF result.ok
    THEN LET newMemory == EnsureEntityName(result.pair.memory, soul.soulName) IN
           onSuccess([Returned(soul, newMemory) EXCEPT !.workingMemory = newMemory],
                     result.pair.value)
    ELSE Finished(HandleCognitiveError(Threw(soul, result.error)))

\* A plausible bug: the two steps of the perception phase are started together,
\* both against the memory the phase began with.
AfterPerceiveFromTheSameMemory(s, perception) ==
  Calls([s EXCEPT !.pc = "monologue", !.workingMemory = s.calls[Len(s.calls)].memory],
        "internalMonologue", "perception")

\* perceptionPhase, from the return of perceive to the call of internalMonologue
AfterPerceive(s, perception) ==
  Calls([s EXCEPT !.pc = "monologue"], "internalMonologue", "perception")

\* perceptionPhase: perceive returns or throws
E_PerceiveReturns(outcome) ==
  /\ program = "enhanced"
  /\ soul.pc = "perceive"
  /\ soul' = StepReturns("perceive",
               PerceiveOptions(LastUserMessage(soul.workingMemory.memories)),
               outcome, AfterPerceive)
  /\ UNCHANGED <<program, clock, vStandalone, lab, scholar>>

AfterMonologue(s, thought) == EnterMemoryPhase(s)

\* perceptionPhase: internalMonologue returns or throws
E_MonologueReturns(outcome) ==
  /\ program = "enhanced"
  /\ soul.pc = "monologue"
  /\ soul' = StepReturns("internalMonologue",
               MonologueOptions(<<"Reflect deeply on the user's message.">>, "contemplates",
                                DefaultPostProcess),
               outcome, AfterMonologue)
  /\ UNCHANGED <<program, clock, vStandalone, lab, scholar>>

AfterRecall(s, recollection) ==
  EnterDecision([s EXCEPT !.soulMemory =
                   StoreSet(@, "conversationCount", s.locals.conversationCount + 1)])

\* memoryPhase: mentalQuery returns or throws
E_RecallReturns(outcome) ==
  /\ program = "enhanced"
  /\ soul.pc = "recall"
  /\ soul' = StepReturns("mentalQuery",
               QueryOptions(
                 <<"I remember ",
                   IF soul.locals.userName # Undefined THEN soul.locals.userName
                   ELSE "this person",
                   ". What did we discuss before? What are their interests and learning style?">>,
                 "recalls", FALSE, DefaultPostProcess),
               outcome, AfterRecall)
  /\ UNCHANGED <<program, clock, vStandalone, lab, scholar>>

AfterDecision(s, choice) ==
  EnterSubprocess([s EXCEPT !.trace = Append(@, DecisionReturned)], choice.text[1])

\* decisionPhase: decision returns or throws
E_DecisionReturns(outcome) ==
  /\ program = "enhanced"
  /\ soul.pc = "decision"
  /\ soul' = StepReturns("decision",
               DecisionOptions(RunnerQuestion, RunnerChoices, DefaultPostProcess),
               outcome, AfterDecision)
  /\ UNCHANGED <<program, clock, vStandalone, lab, scholar>>

AfterSubprocessStep(s, value) ==
  Calls([s EXCEPT !.pc = "respond"], "externalDialog", "subprocess")

\* the subprocess's own step returns or throws
E_SubprocessStepReturns(outcome) ==
  /\ program = "enhanced"
  /\ soul.pc = "subprocess"
  /\ LET subprocess == SubprocessPhase(soul.interactionMode)
         call == SubprocessStep(subprocess)
     IN /\ outcome \in SubprocessOutcomes(subprocess)
        /\ soul' = StepReturns(call.step, call.options, outcome, AfterSubprocessStep)
  /\ UNCHANGED <<program, clock, vStandalone, lab, scholar>>

\* generateResponse: externalDialog returns, or throws and the fallback is
\* spoken; the process goes on to reflectionPhase either way
E_RespondReturns(outcome) ==
  /\ program = "enhanced"
  /\ soul.pc = "respond"
  /\ LET result == RunStep("externalDialog",
                     DialogOptions(SubprocessInstructions(SubprocessPhase(soul.interactionMode)),
                                   FALSE, "quality"),
                     soul.workingMemory, outcome, clock)
     IN soul' =
          IF result.ok
          THEN LET newMemory == EnsureEntityName(result.pair.memory, soul.soulName) IN
                 EnterReflection(
                   [Returned(soul, newMemory) EXCEPT
                      !.workingMemory = newMemory,
                      !.spoken = Append(@, result.pair.value.text)])
          ELSE EnterReflection(HandleCognitiveError(Threw(soul, result.error)))
  /\ UNCHANGED <<program, clock, vStandalone, lab, scholar>>

\* A plausible bug: the reflection phase runs its step a second time.
AfterReflectReflectsAgain(s, reflection) ==
  IF Len(SelectSeq(s.calls, LAMBDA call : call.phase = "reflection")) < 2
  THEN Calls([s EXCEPT !.pc = "reflect"], "reflect", "reflection")
  ELSE Finished(ExtractAndStoreUserInfo(s))

AfterReflect(s, reflection) == Finished(ExtractAndStoreUserInfo(s))

\* reflectionPhase: reflect returns or throws
E_ReflectReturns(outcome) ==
  /\ program = "enhanced"
  /\ soul.pc = "reflect"
  /\ soul' = StepReturns("reflect",
               ReflectOptions(<<"this conversation and what I've learned about the user">>,
                              "deep"),
               outcome, AfterReflect)
  /\ UNCHANGED <<program, clock, vStandalone, lab, scholar>>

(***************************************************************************)
(* part_000: the terminal app.  `soul` is the Soul the app talks to, with   *)
(* the listeners the app has registered for its 'says' event; the Soul      *)
(* calls every registered listener, in the order of registration, once for  *)
(* each event it emits.  `rendered` lists, per 'says' event, what reached    *)
(* the terminal.                                                            *)
(***************************************************************************)
\* The 'says' events the soul emits: with content, or with a stream of chunks.
SaysEvents ==
  {[stream |-> FALSE, chunks |-> <<"Tell me more">>],
   [stream |-> TRUE, chunks |-> <<"Tell ", "me more">>]}

\* conversationLoop(soul), up to the first prompt: initializeSoul has
\* registered no listener for 'says'; `let messageCount = 0`.  `dispatched`
\* lists the perceptions the loop has dispatched, `said` counts the 'says'
\* events the soul has answered them with.
NewTerminal ==
  [soulName |-> "Scholar",
   messageCount |-> 0,
   dispatched |-> <<>>,
   said |-> 0,
   listeners |-> <<>>,
   rendered |-> <<>>]

\* the closure made by one pass of the loop: `let fullResponse = ""; let
\* chunkCount = 0`
NewHandler == [fullResponse |-> <<>>, chunkCount |-> 0]

\* the handler passed to soul.on("says", ...), run for `event`
HandleSays(handler, event) ==
  IF event.stream
  THEN [fullResponse |-> handler.fullResponse \o event.chunks,
        chunkCount |-> handler.chunkCount + Len(event.chunks)]
  ELSE [handler EXCEPT !.fullResponse = event.chunks]

\* conversationLoop: one pass for a regular message: the count is raised, a
\* handler is registered with soul.on("says", ...) and the message is
\* dispatched
T_Message(message) ==
  /\ program = "terminal"
  /\ soul.messageCount < MaxMessages
  /\ soul' = [soul EXCEPT
                !.messageCount = @ + 1,
                !.listeners = Append(@, NewHandler),
                !.dispatched = Append(@, [action |-> "says", content |-> message,
                                          messageNumber |-> soul.messageCount + 1])]
  /\ UNCHANGED <<program, clock, vStandalone, lab, scholar>>

\* the soul answers a perception with a 'says' event: every registered
\* handler runs and writes the response to the terminal
T_Says(event) ==
  /\ program = "terminal"
  /\ soul.said < Len(soul.dispatched)
  /\ soul' = [soul EXCEPT
                !.said = @ + 1,
                !.listeners = [i \in 1..Len(@) |-> HandleSays(@[i], event)],
                !.rendered = Append(@, [response |-> event.chunks,
                                        times |-> Len(soul.listeners)])]
  /\ UNCHANGED <<program, clock, vStandalone, lab, scholar>>

InitRunner ==
  CASE program = "runner" ->
         \E soulName \in SoulNames, file \in StoredFiles :
           \E loaded \in LoadMemoriesFromFile(file) : soul = NewRunner(soulName, file, loaded)
    [] program = "enhanced" ->
         \E soulName \in SoulNames : soul = NewEnhancedRunner(soulName)
    [] program = "souls" -> soul = NewDisk
    [] program = "terminal" -> soul = NewTerminal
    [] OTHER -> soul = NoSoul

(***************************************************************************)
(* externalDialog.ts with `stream: true`: one streaming step of a mental    *)
(* process.  The Processor delivers `lab.source` fragment by fragment and   *)
(* then ends the stream, or breaks it when `lab.breaks`; the host pulls the *)
(* fragments through the step's stream adapter and may stop pulling.        *)
(***************************************************************************)
Chunk(chunk) == [kind |-> "chunk", chunk |-> chunk]
EndOfStream == [kind |-> "end"]
StreamError == [kind |-> "error"]

\* A plausible bug: chunks without text are not passed on.
ProcessStreamSkipsEmpty(chunkCount, event) ==
  IF event.kind = "chunk" /\ Len(event.chunk) > 0
  THEN [chunkCount |-> chunkCount + 1, emits |-> <<event>>]
  ELSE IF event.kind = "chunk" THEN [chunkCount |-> chunkCount, emits |-> <<>>]
  ELSE [chunkCount |-> chunkCount, emits |-> <<event>>]

\* A plausible bug: an error of the stream is caught and the generator
\* returns as if the stream had ended.
ProcessStreamEndsOnError(chunkCount, event) ==
  IF event.kind = "chunk"
  THEN [chunkCount |-> chunkCount + 1, emits |-> <<event>>]
  ELSE [chunkCount |-> chunkCount, emits |-> <<EndOfStream>>]

\* processStream(): one turn of `for await (const chunk of stream)`.  A chunk
\* is counted and yielded; the end of the stream ends the generator; an error
\* of the stream is not caught.
ProcessStream(chunkCount, event) ==
  IF event.kind = "chunk"
  THEN [chunkCount |-> chunkCount + 1, emits |-> <<event>>]
  ELSE [chunkCount |-> chunkCount, emits |-> <<event>>]

\* What the Processor may stream.
Fragments == {<<"Hi", " ">>, <<"there">>, <<>>}
RECURSIVE SourcesOf(_)
SourcesOf(n) ==
  IF n = 0 THEN {<<>>}
  ELSE LET shorter == SourcesOf(n - 1) IN
         shorter \cup {Append(source, fragment) : source \in shorter, fragment \in Fragments}
Sources == SourcesOf(MaxFragments)

\* the text of the fragments, one after another
RECURSIVE Accumulated(_)
Accumulated(fragments) ==
  IF Len(fragments) = 0 THEN <<>> ELSE Head(fragments) \o Accumulated(Tail(fragments))

NoResponse == [tag |-> "undefined"]
Streaming == "streaming"

\* `const [teachingMemory, teachingStream] = await externalDialog(memory, {
\* instructions, stream: true })`, called with a WorkingMemory
NewStream(memory, source, breaks) ==
  [step |-> "externalDialog",
   options |-> DialogOptions(<<"Begin teaching.">>, TRUE, Undefined),
   memory |-> memory,          \* the memory passed to the step
   source |-> source,
   breaks |-> breaks,
   delivered |-> 0,            \* fragments the Processor has delivered
   chunkCount |-> 0,
   forwarded |-> <<>>,         \* fragments the host has received
   accumulated |-> <<>>,       \* the text kept for post-processing
   status |-> Streaming,
   response |-> NoResponse,    \* what post-processing was called with
   results |-> <<>>,
   processMemory |-> memory]   \* the process's variable `memory`

InitStream ==
  IF program = "stream"
  THEN \E memory \in {m \in StepMemories : m.entityName # Undefined},
          source \in Sources, breaks \in BOOLEAN :
         lab = NewStream(memory, source, breaks)
  ELSE TRUE

\* the executor takes what the adapter emitted: a chunk is forwarded to the
\* host and its text kept; at the end of the stream post-processing runs on
\* the whole text and the process goes on with the memory it returns
\* (`memory = teachingMemory`); an error fails the step and the process
\* rejects with its memory as it was
Emitted(s, emits, now) ==
  IF emits = <<>> THEN s
  ELSE LET event == emits[1] IN
    IF event.kind = "chunk"
    THEN [s EXCEPT !.forwarded = Append(@, event.chunk),
                   !.accumulated = @ \o event.chunk]
    ELSE IF event.kind = "end"
    THEN LET response == Str(s.accumulated)
             result == RunStep(s.step, s.options, s.memory, Responded(response), now)
         IN [s EXCEPT !.status = IF result.ok THEN "completed" ELSE "failed",
                      !.response = response,
                      !.results = Append(@, result),
                      !.processMemory = IF result.ok THEN result.pair.memory ELSE @]
    ELSE [s EXCEPT !.status = "failed"]

\* the host pulls: the Processor's next fragment goes through the adapter
Stream_Next ==
  /\ program = "stream"
  /\ lab.status = Streaming
  /\ lab.delivered < Len(lab.source)
  /\ LET out == ProcessStream(lab.chunkCount, Chunk(lab.source[lab.delivered + 1])) IN
       lab' = Emitted([lab EXCEPT !.delivered = @ + 1, !.chunkCount = out.chunkCount],
                      out.emits, clock)
  /\ UNCHANGED <<program, clock, vStandalone, soul, scholar>>

\* the host pulls after the last fragment: the stream ends, or breaks
Stream_Ends ==
  /\ program = "stream"
  /\ lab.status = Streaming
  /\ lab.delivered = Len(lab.source)
  /\ LET out == ProcessStream(lab.chunkCount,
                              IF lab.breaks THEN StreamError ELSE EndOfStream) IN
       lab' = Emitted([lab EXCEPT !.chunkCount = out.chunkCount], out.emits, clock)
  /\ UNCHANGED <<program, clock, vStandalone, soul, scholar>>

\* the host stops pulling and gives the stream up
Stream_Abandon ==
  /\ program = "stream"
  /\ lab.status = Streaming
  /\ lab' = [lab EXCEPT !.status = "abandoned"]
  /\ UNCHANGED <<program, clock, vStandalone, soul, scholar>>

(***************************************************************************)
(* part_001: the mental process scholarAwakens.  The process keeps what a   *)
(* cognitive step resolves to in `workingMemory` and passes it to the next  *)
(* step as it is.                                                           *)
(***************************************************************************)
\* the branch of the switch each label names
ScholarBranches ==
  [learning |-> "learningProcess", teaching |-> "teachingProcess",
   emotional_support |-> "emotionalProcess", exploring |-> "exploration"]
NoBranch == "none"

\* What the host hands to an invocation: the memory, the soul memory, and the
\* label its Processor answers the decision question with.
Invocations ==
  [initialMemory : {NewWorkingMemory("Scholar", <<Entry(System, Blueprint)>>),
                    DefineEntityName(
                      NewWorkingMemory("Scholar",
                        <<Entry(System, Blueprint), Entry(User, <<"hello">>)>>),
                      "Scholar")},
   storedName : {Undefined, "Ada"},
   conversationCount : {0, 2},
   label : Range(ScholarChoices)]


\* scholarAwakens({ workingMemory: initialMemory }), up to the call of Step 1
NewInvocation(invocation) ==
  [pc |-> "monologue",
   initialMemory |-> invocation.initialMemory,
   workingMemory |-> invocation.initialMemory,
   storedName |-> invocation.storedName,
   conversationCount |-> invocation.conversationCount,
   label |-> invocation.label,
   error |-> Undefined,
   branch |-> NoBranch,
   subprocessReturned |-> NoMemory,
   returned |-> NoMemory]

NoInvocation == [pc |-> "none"]

\* teachingProcess({ workingMemory, params }), up to the call of Step 1:
\* `let memory = workingMemory`.  `produced` collects the entries the steps
\* that returned have produced, in the order of their execution.
NewTeaching(workingMemory) ==
  [pc |-> "assess",
   initialMemory |-> workingMemory,
   memory |-> workingMemory,
   produced |-> <<>>,
   teachingIdeas |-> Undefined,
   error |-> Undefined,
   returned |-> NoMemory]

\* What scholarAwakens (part_001 lines 119-127) or another caller passes as
\* `params` to learningProcess.
LearningParams ==
  [focusArea : {Undefined, "music"}, depth : {Undefined, "surface", "comprehensive", "exhaustive"}]

\* params?.depth === "exhaustive" ? 10 : params?.depth === "comprehensive" ? 5 : 3
MaxQuestions(depth) ==
  IF depth = "exhaustive" THEN 10 ELSE IF depth = "comprehensive" THEN 5 ELSE 3

\* params?.focusArea || otherwise
FocusArea(params, otherwise) ==
  IF params.focusArea = Undefined THEN otherwise ELSE params.focusArea

\* learningProcess({ workingMemory, params }), up to the call of Step 1:
\* `let memory = workingMemory; let questionsAsked = 0`.  `steps` lists the
\* steps whose calls returned, in the order of their execution, and
\* `userLearnings` is what the soul memory holds under that key.
NewLearning(workingMemory, params) ==
  [pc |-> "intention",
   initialMemory |-> workingMemory,
   params |-> params,
   memory |-> workingMemory,
   questionsAsked |-> 0,
   maxQuestions |-> MaxQuestions(params.depth),
   steps |-> <<>>,
   userLearnings |-> <<>>,
   error |-> Undefined,
   returned |-> NoMemory]

InitScholar ==
  CASE program = "scholar" ->
         \E invocation \in Invocations : scholar = NewInvocation(invocation)
    [] program = "teaching" ->
         \E invocation \in Invocations : scholar = NewTeaching(invocation.initialMemory)
    [] program = "learning" ->
         \E invocation \in Invocations, params \in LearningParams :
           scholar = NewLearning(invocation.initialMemory, params)
    [] OTHER -> scholar = NoInvocation

\* the process rejects with the step's error
Rejected(s, error) == [s EXCEPT !.pc = "failed", !.error = error]

\* Step 1: `let workingMemory = await internalMonologue(initialMemory, ...)`,
\* then Step 2 reads the soul memory
SA_MonologueReturns(outcome) ==
  /\ program = "scholar"
  /\ scholar.pc = "monologue"
  /\ LET result == RunStep("internalMonologue",
                     MonologueOptions(<<"Scholar reflects on awakening and their purpose.">>,
                                      "contemplates", VerbatimPostProcess),
                     scholar.initialMemory, outcome, clock)
     IN scholar' =
          IF result.ok
          THEN [scholar EXCEPT
                  !.workingMemory = result.pair,
                  !.pc = IF scholar.storedName # Undefined THEN "recall" ELSE "greet"]
          ELSE Rejected(scholar, result.error)
  /\ UNCHANGED <<program, clock, vStandalone, lab, soul>>

\* Step 2: `workingMemory = await mentalQuery(workingMemory, ...)`
SA_RecallReturns(outcome) ==
  /\ program = "scholar"
  /\ scholar.pc = "recall"
  /\ LET result == RunStep("mentalQuery",
                     QueryOptions(<<"I remember ", scholar.storedName,
                                    ". What did we discuss last time?">>,
                                  "recalls", FALSE, DefaultPostProcess),
                     scholar.workingMemory, outcome, clock)
     IN scholar' =
          IF result.ok
          THEN [scholar EXCEPT !.workingMemory = result.pair, !.pc = "greet"]
          ELSE Rejected(scholar, result.error)
  /\ UNCHANGED <<program, clock, vStandalone, lab, soul>>

\* Step 3: `const [greetingMemory, greetingStream] = await externalDialog(workingMemory, ...)`.
\* Were the call to return, Step 4 would call decision.
SA_GreetReturns(outcome) ==
  /\ program = "scholar"
  /\ scholar.pc = "greet"
  /\ LET result == RunStep("externalDialog",
                     DialogOptions(
                       IF scholar.storedName # Undefined
                       THEN <<"Greet ", scholar.storedName,
                              " warmly, acknowledging your previous conversations.">>
                       ELSE <<"Introduce yourself as Scholar and express curiosity about the person you're meeting.">>,
                       TRUE, Undefined),
                     scholar.workingMemory, outcome, clock)
     IN scholar' =
          IF result.ok
          THEN [scholar EXCEPT !.workingMemory = result.pair.memory, !.pc = "decision"]
          ELSE Rejected(scholar, result.error)
  /\ UNCHANGED <<program, clock, vStandalone, lab, soul>>

(***************************************************************************)
(* soul/subprocesses/teachingProcess.ts: the mental process teachingProcess, *)
(* invoked on its own.  Like scholarAwakens it keeps what a step resolves   *)
(* to in `memory` and passes it to the next step as it is.                  *)
(***************************************************************************)
\* the entries `after` holds beyond those of `before`
EntriesAdded(before, after) ==
  SubSeq(after.memories, Len(before.memories) + 1, Len(after.memories))

\* Step 1: `memory = await internalMonologue(memory, ...)`
TP_AssessReturns(outcome) ==
  /\ program = "teaching"
  /\ scholar.pc = "assess"
  /\ LET result == RunStep("internalMonologue",
                     MonologueOptions(
                       <<"What knowledge would be most valuable to share right now?">>,
                       "considers", DefaultPostProcess),
                     scholar.memory, outcome, clock)
     IN scholar' =
          IF result.ok
          THEN [scholar EXCEPT
                  !.memory = result.pair,
                  !.produced = @ \o EntriesAdded(scholar.memory, result.pair.memory),
                  !.pc = "brainstorm"]
          ELSE Rejected(scholar, result.error)
  /\ UNCHANGED <<program, clock, vStandalone, lab, soul>>

\* Step 2: `const teachingIdeas = await brainstorm(memory, ...)`.  Were the
\* call to return, Step 3 would call decision with the same `memory`.
TP_BrainstormReturns(outcome) ==
  /\ program = "teaching"
  /\ scholar.pc = "brainstorm"
  /\ LET result == RunStep("brainstorm",
                     [BrainstormOptions(<<"effective ways to explain this concept">>)
                        EXCEPT !.count = 3],
                     scholar.memory, outcome, clock)
     IN scholar' =
          IF result.ok
          THEN [scholar EXCEPT
                  !.teachingIdeas = result.pair,
                  !.produced = @ \o EntriesAdded(scholar.memory, result.pair.memory),
                  !.pc = "approach"]
          ELSE Rejected(scholar, result.error)
  /\ UNCHANGED <<program, clock, vStandalone, lab, soul>>

\* learningProcess, Step 1: `memory = await internalMonologue(memory, ...)`,
\* then the test of the question loop
LP_IntentionReturns(outcome) ==
  /\ program = "learning"
  /\ scholar.pc = "intention"
  /\ LET result == RunStep("internalMonologue",
                     MonologueOptions(
                       <<"Scholar considers what they want to learn about ",
                         FocusArea(scholar.params, "the user"),
                         ". What specific aspects would be most valuable to understand?">>,
                       "contemplates", DefaultPostProcess),
                     scholar.memory, outcome, clock)
     IN scholar' =
          IF result.ok
          THEN [scholar EXCEPT
                  !.memory = result.pair,
                  !.steps = Append(@, "internalMonologue"),
                  !.pc = IF scholar.questionsAsked < scholar.maxQuestions
                         THEN "formulate" ELSE "synthesize"]
          ELSE Rejected(scholar, result.error)
  /\ UNCHANGED <<program, clock, vStandalone, lab, soul>>

\* Step 2, first in the loop: `memory = await mentalQuery(memory, ...)`.  Were
\* the call to return, Step 3 would ask the question with externalDialog.
LP_FormulateReturns(outcome) ==
  /\ program = "learning"
  /\ scholar.pc = "formulate"
  /\ LET result == RunStep("mentalQuery",
                     QueryOptions(
                       <<"Based on what I know so far, what would be a thoughtful, open-ended question to learn more about ",
                         FocusArea(scholar.params, "this person"), "?">>,
                       "formulates", FALSE, DefaultPostProcess),
                     scholar.memory, outcome, clock)
     IN scholar' =
          IF result.ok
          THEN [scholar EXCEPT
                  !.memory = result.pair,
                  !.steps = Append(@, "mentalQuery"),
                  !.pc = "ask"]
          ELSE Rejected(scholar, result.error)
  /\ UNCHANGED <<program, clock, vStandalone, lab, soul>>

(***************************************************************************)
(* standalone-demo.ts as a program, and a caller that forks one             *)
(* SimpleWorkingMemory twice.                                               *)
(***************************************************************************)
\* The entries a forking caller appends.
ForkEntries ==
  {Entry(User, <<"a">>), Entry(Assistant, <<"b">>)}

InitStandalone ==
  IF program \in {"standalone", "fork"}
  THEN /\ \E init \in StandaloneInitialMemories :
            LET made == NewSimpleWorkingMemory(<<>>, init) IN
              /\ arrays = made.arrays
              /\ held = <<made.ref>>
              /\ initialEntries = init
       /\ appended = <<>>
       /\ lastReturn = <<>>
  ELSE /\ arrays = <<>>
       /\ held = <<>>
       /\ initialEntries = <<>>
       /\ appended = <<>>
       /\ lastReturn = <<>>

\* StandaloneSoul.processMessage(message)
SS_ProcessMessage(message, pick) ==
  /\ program = "standalone"
  /\ Len(appended) < MaxTurns + MaxTurns
  /\ LET userEntry == Entry(User, message)
         afterUser == AddMemory(arrays, held[1], userEntry)
         response == Responses[pick] \o ResponseSuffix
         replyEntry == Entry(Assistant, response)
         afterReply == AddMemory(afterUser.arrays, held[1], replyEntry)
     IN /\ arrays' = afterReply.arrays
        /\ appended' = appended \o <<userEntry, replyEntry>>
        /\ lastReturn' = response
  /\ UNCHANGED <<program, clock, held, initialEntries, lab, soul, scholar>>

\* M1 = M.addMemory(a)
Fork_First(a) ==
  /\ program = "fork"
  /\ Len(held) = 1
  /\ LET r == AddMemory(arrays, held[1], a) IN
       /\ arrays' = r.arrays
       /\ held' = Append(held, r.ref)
  /\ appended' = <<a>>
  /\ UNCHANGED <<program, clock, initialEntries, lastReturn, lab, soul, scholar>>

\* M2 = M.addMemory(b)
Fork_Second(b) ==
  /\ program = "fork"
  /\ Len(held) = 2
  /\ b # appended[1]
  /\ LET r == AddMemory(arrays, held[1], b) IN
       /\ arrays' = r.arrays
       /\ held' = Append(held, r.ref)
  /\ appended' = Append(appended, b)
  /\ UNCHANGED <<program, clock, initialEntries, lastReturn, lab, soul, scholar>>

\* time passes
Tick ==
  /\ program \in ClockReaders
  /\ clock < MaxClock
  /\ clock' = clock + 1
  /\ UNCHANGED <<program, vStandalone, lab, soul, scholar>>

Init ==
  /\ program \in Programs
  /\ clock = 0
  /\ InitStandalone
  /\ InitStep
  /\ InitStream
  /\ InitRunner
  /\ InitScholar

Next ==
  \/ Tick
  \/ \E readable \in BOOLEAN, importable \in BOOLEAN : R_Initialize(readable, importable)
  \/ \E m \in Messages : R_ProcessMessage(m)
  \/ \E outcome \in MonologueOutcomes : R_MonologueReturns(outcome)
  \/ \E outcome \in DialogOutcomes : R_DialogReturns(outcome)
  \/ R_Restart
  \/ \E soulName \in HostedNames : M_Construct(soulName)
  \/ \E soulName \in HostedNames, value \in HostedValues : M_Set(soulName, value)
  \/ \E readable \in BOOLEAN, importable \in BOOLEAN : E_Initialize(readable, importable)
  \/ \E m \in Messages : E_ProcessMessage(m)
  \/ \E outcome \in PerceiveOutcomes : E_PerceiveReturns(outcome)
  \/ \E outcome \in MonologueOutcomes : E_MonologueReturns(outcome)
  \/ \E outcome \in QueryOutcomes : E_RecallReturns(outcome)
  \/ \E outcome \in DecisionOutcomes : E_DecisionReturns(outcome)
  \/ \E outcome \in BrainstormOutcomes \cup MonologueOutcomes \cup QueryOutcomes :
       E_SubprocessStepReturns(outcome)
  \/ \E outcome \in DialogOutcomes : E_RespondReturns(outcome)
  \/ \E outcome \in ReflectOutcomes : E_ReflectReturns(outcome)
  \/ \E outcome \in MonologueOutcomes : SA_MonologueReturns(outcome)
  \/ \E outcome \in QueryOutcomes : SA_RecallReturns(outcome)
  \/ \E outcome \in DialogOutcomes : SA_GreetReturns(outcome)
  \/ \E outcome \in MonologueOutcomes : TP_AssessReturns(outcome)
  \/ \E outcome \in BrainstormOutcomes : TP_BrainstormReturns(outcome)
  \/ \E m \in Messages : T_Message(m)
  \/ \E event \in SaysEvents : T_Says(event)
  \/ \E outcome \in MonologueOutcomes : LP_IntentionReturns(outcome)
  \/ \E outcome \in QueryOutcomes : LP_FormulateReturns(outcome)
  \/ \E m \in DemoMessages, pick \in 1..Len(Responses) : SS_ProcessMessage(m, pick)
  \/ \E a \in ForkEntries : Fork_First(a)
  \/ \E b \in ForkEntries : Fork_Second(b)
  \/ Step_Run
  \/ Stream_Next
  \/ Stream_Ends
  \/ Stream_Abandon

Spec == Init /\ [][Next]_vars

\* An awaited call of a cognitive step of a runner returns or throws.
StepSettles ==
  \/ \E outcome \in MonologueOutcomes : R_MonologueReturns(outcome)
  \/ \E outcome \in DialogOutcomes : R_DialogReturns(outcome)
  \/ \E outcome \in PerceiveOutcomes : E_PerceiveReturns(outcome)
  \/ \E outcome \in MonologueOutcomes : E_MonologueReturns(outcome)
  \/ \E outcome \in QueryOutcomes : E_RecallReturns(outcome)
  \/ \E outcome \in DecisionOutcomes : E_DecisionReturns(outcome)
  \/ \E outcome \in BrainstormOutcomes \cup MonologueOutcomes \cup QueryOutcomes :
       E_SubprocessStepReturns(outcome)
  \/ \E outcome \in DialogOutcomes : E_RespondReturns(outcome)
  \/ \E outcome \in ReflectOutcomes : E_ReflectReturns(outcome)

\* The program under the assumption that every awaited call of a cognitive
\* step eventually returns or throws: the event loop resumes the awaiting
\* processMessage as soon as the promise settles.
FairSpec == Spec /\ WF_vars(StepSettles)

(***************************************************************************)
(* Properties.                                                              *)
(***************************************************************************)

Runners == {"runner", "enhanced"}

\* C1: in both LocalSoulRunners the entries of workingMemory at one moment
\* are a prefix of its entries at every later moment, whatever the steps'
\* outcomes: no step of the program removes, replaces or reorders an entry.
C1_EntriesOnlyAppended ==
  [][(program \in Runners) =>
       IsPrefix(Entries(soul.workingMemory), Entries(soul'.workingMemory))]_vars

C1_Witness ==
  /\ program = "enhanced"
  /\ soul.accepted = MaxMessages
  /\ soul.pc = "idle"
  /\ \E i \in 1..Len(Entries(soul.workingMemory)) :
       /\ soul.workingMemory.memories[i].content = EnhancedFallback
       /\ i < Len(soul.workingMemory.memories)

\* C2: appending to a memory never mutates the receiver: after
\* M1 = M.addMemory(a) and M2 = M.addMemory(b), M holds what it held before,
\* M1 is M followed by a, M2 is M followed by b, and neither fork holds the
\* other fork's entry.
C2_AppendLeavesReceiver ==
  (program = "fork" /\ Len(held) = 3) =>
    /\ arrays[held[1]] = initialEntries
    /\ arrays[held[2]] = Append(initialEntries, appended[1])
    /\ arrays[held[3]] = Append(initialEntries, appended[2])
    /\ appended[2] \notin Range(arrays[held[2]])
    /\ appended[1] \notin Range(arrays[held[3]])

\* C3: after any sequence of append calls the memory holds its initial
\* entries followed by the appended entries in the order of the calls, so its
\* length is the initial length plus the number of entries appended.
C3_AppendedInOrder ==
  program \in {"standalone", "fork"} =>
    /\ arrays[held[1]] = initialEntries \o appended
    /\ Len(arrays[held[1]]) = Len(initialEntries) + Len(appended)

C3_Witness ==
  /\ program = "standalone"
  /\ Len(appended) = MaxTurns + MaxTurns
  /\ Len(arrays[held[1]]) > Len(initialEntries)

ChoiceLabels(options) == {Label(options.choices[i]) : i \in 1..Len(options.choices)}

\* C5: the value a decision step exposes is a member of the supplied choice
\* set; a response outside the set makes the step fail with a validation
\* error, and no label is substituted for it.
C5_DecisionValueInChoices ==
  lab.step = "decision" =>
    \A i \in 1..Len(lab.results) :
      LET result == lab.results[i] IN
        IF lab.response \in ChoiceLabels(lab.options)
        THEN result.ok /\ result.pair.value \in ChoiceLabels(lab.options)
        ELSE result = Failed("ValidationError")

C5_Witness ==
  /\ lab.step = "decision"
  /\ lab.options.choices = ScholarChoices
  /\ lab.response = Label("brainstorming")
  /\ Len(lab.results) > 0
  /\ lab.results[1] = Failed("ValidationError")

\* C6: a decision step whose Processor response is a choice c exposes exactly
\* c and yields the input memory plus exactly one entry, of role assistant,
\* whose content names c.
C6_DecisionAppendsTheChoice ==
  (lab.step = "decision" /\ lab.response \in ChoiceLabels(lab.options)) =>
    \A i \in 1..Len(lab.results) :
      LET result == lab.results[i]
          before == lab.memory.memories
          after == result.pair.memory.memories
      IN /\ result.ok
         /\ result.pair.value = lab.response
         /\ Len(after) = Len(before) + 1
         /\ IsPrefix(before, after)
         /\ after[Len(after)].role = Assistant
         /\ lab.response.text[1] \in Range(after[Len(after)].content)

C6_Witness ==
  /\ lab.step = "decision"
  /\ lab.options.postProcess = DefaultPostProcess
  /\ lab.response = Label("teaching")
  /\ Len(lab.results) > 0
  /\ lab.results[1].ok
  /\ lab.results[1].pair.value = Label("teaching")

\* C7: two runs of a cognitive step with the same input memory, the same
\* options and the same Processor response yield identical new memories and
\* identical exposed values.
C7_RepeatedRunsAgree ==
  Len(lab.results) >= 2 => lab.results[1] = lab.results[2]

\* C4: once initialize has built the runner's workingMemory, the identity
\* read from it (entityName, soulName) is the soul name the constructor was
\* given, after every append and every cognitive step.
C4_IdentityIsTheSoulName ==
  (program \in Runners /\ IsWorkingMemory(soul.workingMemory)) =>
    /\ EntityNameOf(soul.workingMemory) = soul.soulName
    /\ soul.workingMemory.soulName = soul.soulName
    /\ soul.soulName \in SoulNames

C4_Witness ==
  /\ program = "runner"
  /\ soul.accepted = MaxMessages
  /\ Len(soul.spoken) = MaxMessages
  /\ EntityNameOf(soul.workingMemory) = "Scholar"

\* the subprocess each declared label names
SubprocessNamed ==
  [learning |-> "learningSubprocess", teaching |-> "teachingSubprocess",
   emotional_support |-> "emotionalSupportSubprocess",
   brainstorming |-> "brainstormingSubprocess", exploring |-> "explorationSubprocess"]

SubprocessesEntered(trace) == {i \in 1..Len(trace) : trace[i] \in Subprocesses}
DecisionCalls(trace) == {i \in 1..Len(trace) : trace[i] = DecisionCalled}
DecisionReturns(trace) == {i \in 1..Len(trace) : trace[i] = DecisionReturned}

\* the runner finished the processing of a message
RunnerEnded == program = "enhanced" /\ soul.accepted > 0 /\ soul.pc = "idle"
\* the invocation of scholarAwakens ended and no call of the Processor failed
ScholarEnded ==
  /\ program = "scholar"
  /\ scholar.pc \in {"returned", "failed"}
  /\ scholar.error # "ProcessorError"

\* C8: the branch that runs is the one the decision's label names: in the
\* runner each of the five labels enters the subprocess of the same name, and
\* an invocation of scholarAwakens whose decision is answered with a label
\* runs learningProcess, teachingProcess, emotionalProcess or the exploration
\* steps accordingly.
C8_BranchFollowsLabel ==
  /\ program = "enhanced" =>
       \A i \in SubprocessesEntered(soul.trace) :
         soul.trace[i] = SubprocessNamed[soul.interactionMode]
  /\ ScholarEnded => scholar.branch = ScholarBranches[scholar.label]

\* C9 as stated: every invocation runs exactly one branch, at most once, the
\* branch starts only after the decision step has completed, and the
\* decision step is not run again after the branch has started.
C9_ExactlyOneBranch ==
  /\ RunnerEnded =>
       /\ Cardinality(SubprocessesEntered(soul.trace)) = 1
       /\ \A i \in SubprocessesEntered(soul.trace) :
            /\ \E j \in DecisionReturns(soul.trace) : j < i
            /\ \A j \in DecisionCalls(soul.trace) : j < i
  /\ ScholarEnded => scholar.branch # NoBranch

\* C9, amended: every invocation runs at most one branch, and exactly one
\* once its decision phase has returned a label; the branch starts only after
\* the decision phase has returned (after the decision step has completed,
\* when that step is registered), and the decision step is not run again
\* after the branch has started.
C9_AtMostOneBranch ==
  /\ program = "enhanced" =>
       /\ Cardinality(SubprocessesEntered(soul.trace)) <= 1
       /\ Cardinality(DecisionCalls(soul.trace)) <= 1
       /\ (soul.interactionMode # Undefined) <=>
            Cardinality(SubprocessesEntered(soul.trace)) = 1
       /\ \A i \in SubprocessesEntered(soul.trace) :
            /\ soul.stepsLoaded => \E j \in DecisionReturns(soul.trace) : j < i
            /\ \A j \in DecisionCalls(soul.trace) : j < i
  /\ program = "scholar" =>
       /\ scholar.branch \in {NoBranch} \cup {ScholarBranches[l] : l \in DOMAIN ScholarBranches}
       /\ scholar.branch # NoBranch => scholar.pc # "decision"

C9_Witness ==
  /\ RunnerEnded
  /\ soul.trace = <<DecisionCalled, DecisionReturned, "teachingSubprocess">>
  /\ soul.interactionMode = "teaching"
  /\ Len(soul.spoken) > 0

CallsIn(calls, phase) == {i \in 1..Len(calls) : calls[i].phase = phase}

TeachingEnded ==
  /\ program = "teaching"
  /\ scholar.pc \in {"returned", "failed"}
  /\ scholar.error # "ProcessorError"

\* C12: every step of a mental process runs against the memory the step
\* before it produced, so the memory the process returns is the memory it
\* was given followed, in execution order, by the entry of every step it
\* executed.
C12_ReturnsEveryStepsEntry ==
  TeachingEnded =>
    /\ IsWorkingMemory(scholar.returned)
    /\ Len(scholar.produced) > 0
    /\ scholar.returned.memories = scholar.initialMemory.memories \o scholar.produced

\* the calls that threw
Failures(calls) == {i \in 1..Len(calls) : calls[i].outcome \notin {Pending, "returned"}}
PreDecisionPhases == {"perception", "memory", "decision"}

\* C13: when a step of the pre-decision chain or the decision step fails in
\* runCognitiveProcess, no later step runs for the message: not the decision
\* (when it had not run yet), no subprocess branch, and not the process over
\* again; the message is answered by the fixed fallback reply.
C13_FailureBeforeBranchEndsWithFallback ==
  program = "enhanced" =>
    \A i \in Failures(soul.calls) :
      soul.calls[i].phase \in PreDecisionPhases =>
        /\ i = Len(soul.calls)
        /\ SubprocessesEntered(soul.trace) = {}
        /\ CallsIn(soul.calls, "subprocess") = {}
        /\ soul.calls[i].step # "decision" => DecisionCalls(soul.trace) = {}
        /\ Cardinality({j \in 1..Len(soul.calls) : soul.calls[j].step = "perceive"}) <= 1
        /\ soul.pc = "idle"
        /\ ~soul.isProcessing
        /\ Len(soul.spoken) > 0
        /\ soul.spoken[Len(soul.spoken)] = EnhancedFallback
        /\ soul.workingMemory.memories[Len(soul.workingMemory.memories)]
             = Entry(Assistant, EnhancedFallback)

C13_Witness ==
  /\ program = "enhanced"
  /\ Len(soul.calls) > 1
  /\ soul.calls[Len(soul.calls)].step = "decision"
  /\ soul.calls[Len(soul.calls)].outcome = "ValidationError"
  /\ soul.spoken = <<EnhancedFallback>>
  /\ soul.pc = "idle"

\* the memory the runner holds once the failure of call i has been handled:
\* the one passed to the next call, or the current one after the last call
AfterCall(s, i) == IF i < Len(s.calls) THEN s.calls[i + 1].memory ELSE s.workingMemory
\* the fallback reply each runner gives
FallbackOf(p) == IF p = "runner" THEN RunnerFallback ELSE EnhancedFallback

\* C14: a cognitive step that fails commits nothing: when the failure has
\* been caught the runner holds the memory that was passed to the failed
\* step, extended only by what the recovery appends, which is exactly one
\* assistant entry with the fallback text (and nothing where the catch gives
\* no fallback, as after Step 1 of local-soul-runner.ts).
C14_FailedStepCommitsNothing ==
  program \in Runners =>
    \A i \in Failures(soul.calls) :
      LET passed == soul.calls[i].memory
          kept == AfterCall(soul, i)
      IN /\ soul.calls[i].result = NoMemory
         /\ IsWorkingMemory(kept)
         /\ kept.soulName = passed.soulName
         /\ kept.memories =
              IF soul.calls[i].phase = "step 1" THEN passed.memories
              ELSE Append(passed.memories, Entry(Assistant, FallbackOf(program)))

C14_Witness ==
  /\ program = "runner"
  /\ soul.pc = "idle"
  /\ Len(soul.calls) = 2
  /\ soul.calls[2].step = "externalDialog"
  /\ soul.calls[2].outcome = "ProcessorError"
  /\ Len(soul.workingMemory.memories) = Len(soul.calls[2].memory.memories) + 1
  /\ soul.workingMemory.memories[Len(soul.workingMemory.memories)].content = RunnerFallback

StepErrors == {"ProcessorError", "ValidationError", "TypeError"}

\* C15 as stated: a failure raised by a cognitive step during processMessage
\* reaches the caller of processMessage: the call ends with that error.
C15_FailureReachesTheCaller ==
  program \in Runners =>
    \A i \in 1..Len(soul.host) :
      Len(soul.host[i].errors) > 0 => soul.host[i].outcome = "rejected"

\* C15, amended: a failure raised by a cognitive step reaches the runner
\* unchanged (the call yields no memory and no value in its place) and is
\* caught there; every call of processMessage completes normally, so its
\* caller never sees the error.
C15_FailureIsCaughtByTheRunner ==
  program \in Runners =>
    /\ \A i \in Failures(soul.calls) :
         /\ soul.calls[i].outcome \in StepErrors
         /\ soul.calls[i].result = NoMemory
    /\ \A i \in 1..Len(soul.host) :
         /\ soul.host[i].outcome = "resolved"
         /\ \A j \in 1..Len(soul.host[i].errors) : soul.host[i].errors[j] \in StepErrors
    /\ Len(soul.host) + (IF soul.isProcessing THEN 1 ELSE 0) = soul.delivered

C15_Witness ==
  /\ program = "runner"
  /\ Len(soul.host) = MaxMessages
  /\ soul.host[1] = Settled(FALSE, <<"ProcessorError", "ProcessorError">>, "resolved")
  /\ soul.spoken[1] = RunnerFallback

\* the soul memory of a runner, with the file behind it
StoreOf(s) == IF "soulMemoryStore" \in DOMAIN s THEN <<s.soulMemoryStore, s.memoryFile>>
              ELSE <<s.soulMemory>>
PendingCalls(calls) == {i \in 1..Len(calls) : calls[i].outcome = Pending}

\* C16: a processMessage call made while another one is in progress appends
\* nothing to workingMemory, runs no cognitive step and writes nothing to the
\* soul memory; at most one call of a cognitive step is outstanding, and only
\* while a message is being processed.
C16_OneProcessAtATime ==
  /\ [](program \in Runners =>
         /\ Cardinality(PendingCalls(soul.calls)) <= 1
         /\ PendingCalls(soul.calls) # {} => soul.isProcessing
         /\ soul.accepted <= soul.delivered)
  /\ [][(program \in Runners /\ soul.isProcessing /\ soul'.delivered # soul.delivered) =>
          /\ soul'.workingMemory = soul.workingMemory
          /\ soul'.calls = soul.calls
          /\ StoreOf(soul') = StoreOf(soul)
          /\ soul'.spoken = soul.spoken
          /\ soul'.accepted = soul.accepted
          /\ soul'.pc = soul.pc
          /\ soul'.isProcessing]_vars

C16_Witness ==
  /\ program = "enhanced"
  /\ soul.isProcessing
  /\ soul.pc = "decision"
  /\ soul.accepted = 1
  /\ soul.delivered = MaxMessages
  /\ Len(soul.host) > 0
  /\ soul.host[Len(soul.host)].busy

\* C17: a perception delivered to processMessage while the soul is processing
\* another one is rejected with a reentrancy error that reaches the host: the
\* call made while busy never resolves as if nothing had happened.
C17_BusyDeliveryIsRejected ==
  program \in Runners =>
    \A i \in 1..Len(soul.host) :
      soul.host[i].busy => soul.host[i].outcome = "rejected" /\ soul.host[i].errors # <<>>

PhaseOrder == <<"perception", "memory", "decision", "subprocess", "reflection">>
PhaseRank(phase) == CHOOSE r \in 1..Len(PhaseOrder) : PhaseOrder[r] = phase

\* C18: within one processMessage of the five-phase runner the cognitive steps
\* run one after another: the phases of the calls follow the order perception,
\* memory, decision, subprocess, reflection; a step is only called when every
\* earlier call has returned or thrown; a step that follows a returned step
\* is called with the memory that step's result was stored as; and while a
\* call is outstanding workingMemory is the memory it was called with.
C18_StepsRunOneAfterAnother ==
  program = "enhanced" =>
    /\ \A i \in 1..Len(soul.calls) : soul.calls[i].phase \in Range(PhaseOrder)
    /\ Len(soul.calls) > 0 /\ soul.stepsLoaded => soul.calls[1].phase = "perception"
    /\ \A i \in 1..(Len(soul.calls) - 1) :
          /\ PhaseRank(soul.calls[i].phase) <= PhaseRank(soul.calls[i + 1].phase)
          /\ soul.calls[i].outcome # Pending
          /\ soul.calls[i].outcome = "returned" =>
                soul.calls[i + 1].memory = soul.calls[i].result
    /\ \A i \in PendingCalls(soul.calls) :
          i = Len(soul.calls) /\ soul.workingMemory = soul.calls[i].memory
    /\ \A phase \in {"decision", "reflection"} : Cardinality(CallsIn(soul.calls, phase)) <= 1

C18_Witness ==
  /\ program = "enhanced"
  /\ soul.pc = "idle"
  /\ ~soul.isProcessing
  /\ {soul.calls[i].phase : i \in 1..Len(soul.calls)} = Range(PhaseOrder)
  /\ \A i \in 1..Len(soul.calls) : soul.calls[i].outcome = "returned"
  /\ soul.workingMemory = soul.calls[Len(soul.calls)].result

\* get(key) returns the same from both stores: absent from both, or the same
\* value
SameAt(before, after, key) ==
  /\ (key \in DOMAIN before) = (key \in DOMAIN after)
  /\ key \in DOMAIN before => after[key] = before[key]
StoreKeys == {"userName", "userFacts", "conversationCount", "conversationSummaries"}

\* C19: get(k) returns the value of the most recent set(k, v), or absent when
\* k was never set.  Within one runner no key is ever lost, step 1 (which sets
\* userName and userFacts) leaves the keys of step 2 as they were and step 2
\* (which sets conversationCount and conversationSummaries) those of step 1;
\* and when the runner is ended and constructed again with the same name, get
\* returns for every key from the new runner what it returned from the old.
C19_GetReturnsTheLastSet ==
  [][program = "runner" =>
       /\ Alive(soul') =>
             /\ DOMAIN soul.soulMemoryStore \subseteq DOMAIN soul'.soulMemoryStore
             /\ soul.pc = "monologue" =>
                   \A key \in {"conversationCount", "conversationSummaries"} :
                     SameAt(soul.soulMemoryStore, soul'.soulMemoryStore, key)
             /\ soul.pc = "dialog" =>
                   \A key \in {"userName", "userFacts"} :
                     SameAt(soul.soulMemoryStore, soul'.soulMemoryStore, key)
       /\ (Alive(soul) /\ ~Alive(soul')) =>
             \A key \in StoreKeys :
               SameAt(soul.soulMemoryStore, soul'.successor.soulMemoryStore, key)]_vars

\* C20: set is write-through: at the end of every step of the runner that set
\* a key, the memory file exists and holds exactly the in-memory store, the
\* value just set included.
C20_SetIsWrittenThrough ==
  [][(program = "runner" /\ soul'.soulMemoryStore # soul.soulMemoryStore) =>
       /\ soul'.memoryFile.exists
       /\ Parse(soul'.memoryFile.data) = soul'.soulMemoryStore]_vars

\* C21: runners constructed with different soul names use different memory
\* files, and the store of a runner holds no value that runner did not set
\* itself (the directory starts without files): what one soul sets is never
\* seen by another.
C21_SoulsShareNoFile ==
  program = "souls" =>
    \A one \in soul.constructed :
      /\ \A other \in soul.constructed \ {one} :
            MemoryFilePath(one) # MemoryFilePath(other)
      /\ \A key \in DOMAIN soul.stores[one] :
            soul.stores[one][key] \in soul.written[one]

\* C22: the stream adapter of externalDialog passes every fragment on, in
\* order and unaltered: at every moment the host has received exactly the
\* fragments delivered so far, the adapter has counted them, and the text kept
\* is their concatenation; when the stream has ended, post-processing is
\* called with the concatenation of all fragments of the source.
C22_AdapterPassesThrough ==
  program = "stream" =>
    /\ lab.forwarded = SubSeq(lab.source, 1, lab.delivered)
    /\ lab.chunkCount = lab.delivered
    /\ lab.accumulated = Accumulated(lab.forwarded)
    /\ lab.status = "completed" =>
          /\ lab.forwarded = lab.source
          /\ lab.response = Str(Accumulated(lab.source))

C22_Witness ==
  /\ program = "stream"
  /\ lab.status = "completed"
  /\ lab.source = <<<<"Hi", " ">>, <<>>, <<"there">>>>
  /\ lab.response = Str(<<"Hi", " ", "there">>)

\* the stream was given up by the host or broken by the Processor
StreamAbandoned ==
  /\ program = "stream"
  /\ lab.status # Streaming
  /\ lab.status = "abandoned" \/ lab.breaks

HintOf(step, options) ==
  IF step = "externalDialog" THEN options.model ELSE ModelClassIn(options)

\* C24: for every step called with a model-class hint, the configuration the
\* step returns carries that hint under modelClass.
C24_HintIsForwarded ==
  (program = "step" /\ HintOf(lab.step, lab.options) # Undefined) =>
    \A i \in 1..Len(lab.configurations) :
      /\ "modelClass" \in lab.configurations[i].keys
      /\ lab.configurations[i].modelClass = HintOf(lab.step, lab.options)

SystemEntries(memories) == {i \in 1..Len(memories) : memories[i].role = System}

\* C25: once a runner is initialized, the first entry of its workingMemory is
\* the system entry holding the blueprint, and the system entries are the ones
\* initialize created (the blueprint and, in the LocalSoulRunners, the
\* running-locally prompt after it), whatever messages were processed since.
C25_BlueprintStaysFirst ==
  /\ (program \in Runners /\ IsWorkingMemory(soul.workingMemory)) =>
       /\ soul.workingMemory.memories[1] = Entry(System, Blueprint)
       /\ SystemEntries(soul.workingMemory.memories) = {1, 2}
  /\ program = "standalone" =>
       /\ arrays[held[1]][1] \in {Entry(System, Blueprint), Entry(System, DefaultBlueprint)}
       /\ arrays[held[1]][1] = initialEntries[1]
       /\ SystemEntries(arrays[held[1]]) = {1}

C25_Witness ==
  /\ program = "enhanced"
  /\ soul.pc = "idle"
  /\ soul.accepted = MaxMessages
  /\ Len(soul.spoken) = MaxMessages
  /\ soul.spoken[1] = EnhancedFallback
  /\ soul.spoken[MaxMessages] # EnhancedFallback
  /\ soul.workingMemory.memories[1] = Entry(System, Blueprint)

\* C26: building the command and post-processing leave the WorkingMemory
\* passed to the step as it was: after every call of each of the seven steps
\* the caller's memory holds the entries it held before, every command was
\* built from those entries, and when the step succeeded its new entries are
\* in the returned memory only, after the entries of the input.
C26_StepLeavesItsInputAlone ==
  program = "step" =>
    /\ lab.memory = lab.given
    /\ \A i \in 1..Len(lab.commands) :
          lab.commands[i] = StepCommand(lab.step, lab.options, lab.given).command
    /\ \A i \in 1..Len(lab.results) :
          lab.results[i].ok =>
            /\ IsPrefix(lab.given.memories, lab.results[i].pair.memory.memories)
            /\ Len(lab.results[i].pair.memory.memories) > Len(lab.given.memories)

C26_Witness ==
  /\ program = "step"
  /\ lab.step = "decision"
  /\ Len(lab.given.memories) = 2
  /\ Len(lab.results) = MaxRuns
  /\ lab.results[MaxRuns].ok
  /\ Len(lab.results[MaxRuns].pair.memory.memories) = 3
  /\ Len(lab.memory.memories) = 2

\* C27: within one processMessage a cognitive step whose call failed is not
\* called again: every call made after a failed one is of a different step,
\* and after a failure the runner has either ended the process or gone on to
\* the step that comes next.
C27_NoRetry ==
  program \in Runners =>
    \A i \in Failures(soul.calls) :
      \A j \in (i + 1)..Len(soul.calls) :
        /\ soul.calls[j].step # soul.calls[i].step
        /\ soul.calls[j].memory.memories # soul.calls[i].memory.memories
             \/ soul.calls[j].phase # soul.calls[i].phase

C27_Witness ==
  /\ program = "enhanced"
  /\ soul.pc = "idle"
  /\ Len(soul.calls) > 1
  /\ \E i \in Failures(soul.calls) :
       /\ soul.calls[i].step = "externalDialog"
       /\ i < Len(soul.calls)
       /\ soul.calls[i + 1].step = "reflect"
       /\ soul.calls[i + 1].outcome = "returned"
  /\ soul.spoken[Len(soul.spoken)] = EnhancedFallback

\* the process that held the runner has ended and another one was started
Replaced(s) == "successor" \in DOMAIN s /\ ~Alive(s)

\* C28: the busy flag tracks the invocation: isProcessing is true exactly
\* while an accepted processMessage call has not ended; a call delivered
\* while the flag is false is not turned away as busy; every call that has
\* ended, with or without errors of its steps, left the flag false; and, as
\* long as the process lives and every step returns or throws, a set flag is
\* eventually reset, so that a later message is accepted.
C28_BusyTracksTheInvocation ==
  /\ [](program \in Runners =>
         /\ soul.isProcessing <=> soul.pc # "idle"
         /\ soul.isProcessing => soul.accepted > 0)
  /\ [][(program \in Runners /\ soul'.delivered # soul.delivered /\ ~soul.isProcessing) =>
          /\ soul' # Dropped(soul)
          /\ IsWorkingMemory(soul.workingMemory) => soul'.accepted = soul.accepted + 1]_vars
  /\ [][(program \in Runners /\ Len(soul'.host) > Len(soul.host)
          /\ ~soul'.host[Len(soul'.host)].busy) => ~soul'.isProcessing]_vars
  /\ (program \in Runners /\ soul.isProcessing /\ ~Replaced(soul))
       ~> (program \in Runners /\ (~soul.isProcessing \/ Replaced(soul)))

C28_Witness ==
  /\ program \in Runners
  /\ soul.accepted = MaxMessages
  /\ ~soul.isProcessing
  /\ Len(soul.host) = MaxMessages
  /\ soul.host[1].errors # <<>>
  /\ ~soul.host[1].busy
  /\ soul.host[MaxMessages].errors = <<>>

\* C29: in the persistent runner with its steps registered every accepted
\* message gets exactly one 'speaks' event, emitted when the externalDialog
\* call settles and before processMessage returns: the generated response
\* (the text the step committed to the memory) when the call returned, the
\* fallback text when it threw, whether or not internalMonologue had failed.
C29_OneReplyPerMessage ==
  /\ []((program = "runner" /\ soul.stepsLoaded) =>
          Len(soul.spoken) = soul.accepted - (IF soul.isProcessing THEN 1 ELSE 0))
  /\ [][(program = "runner" /\ soul.isProcessing /\ ~soul'.isProcessing) =>
          LET answered == soul'.calls[Len(soul'.calls)]
              reply == soul'.spoken[Len(soul'.spoken)]
          IN /\ answered.step = "externalDialog"
             /\ soul'.spoken = Append(soul.spoken, reply)
             /\ IF answered.outcome = "returned"
                THEN /\ reply = answered.result.memories[Len(answered.result.memories)].content
                     /\ reply # RunnerFallback
                ELSE reply = RunnerFallback]_vars

C29_Witness ==
  /\ program = "runner"
  /\ soul.accepted = MaxMessages
  /\ ~soul.isProcessing
  /\ Len(soul.spoken) = MaxMessages
  /\ soul.spoken[1] = RunnerFallback
  /\ soul.spoken[MaxMessages] # RunnerFallback
  /\ soul.calls[1].outcome = "ProcessorError"
  /\ soul.calls[2].outcome = "returned"

\* the entries of workingMemory that hold the fallback reply
FallbackEntries(memory) ==
  {i \in 1..Len(memory.memories) : memory.memories[i] = Entry(Assistant, EnhancedFallback)}
\* the 'speaks' events that carried the fallback reply
FallbackReplies(spoken) == {i \in 1..Len(spoken) : spoken[i] = EnhancedFallback}

\* C30: in the five-phase runner, whichever steps fail, an accepted message
\* gets at most one fallback reply and at most one fallback entry in
\* workingMemory, and no fallback once its generated response was emitted:
\* so there are never more 'speaks' events, fallback replies or fallback
\* entries than accepted messages.
C30_AtMostOneFallback ==
  (program = "enhanced" /\ IsWorkingMemory(soul.workingMemory)) =>
    /\ Cardinality(FallbackReplies(soul.spoken)) <= soul.accepted
    /\ Cardinality(FallbackEntries(soul.workingMemory)) <= soul.accepted
    /\ Len(soul.spoken) <= soul.accepted

\* the value stored under "conversationCount", 0 when there is none
StoredCount(s) ==
  IF "conversationCount" \in DOMAIN s.soulMemoryStore
  THEN s.soulMemoryStore.conversationCount ELSE 0
\* the messages answered with the response externalDialog generated
Answered(spoken) == {i \in 1..Len(spoken) : spoken[i] # RunnerFallback}

\* C31: in the persistent runner the stored conversationCount counts the
\* accepted messages whose externalDialog step succeeded: a store without
\* the key has seen no such message, every step of the program raises the
\* count by the number of responses it emitted (one when externalDialog
\* returns, none when it throws), and a delivery turned away as busy leaves
\* it as it was.
C31_CountIsTheAnsweredMessages ==
  /\ [](program = "runner" =>
         ("conversationCount" \notin DOMAIN soul.soulMemoryStore =>
            Answered(soul.spoken) = {}))
  /\ [][program = "runner" =>
          /\ StoredCount(soul') - StoredCount(soul)
               = Cardinality(Answered(soul'.spoken)) - Cardinality(Answered(soul.spoken))
          /\ StoredCount(soul') - StoredCount(soul) \in {0, 1}
          /\ (soul.isProcessing /\ soul'.delivered # soul.delivered) =>
               StoredCount(soul') = StoredCount(soul)
          /\ (soul.pc = "dialog" /\ soul'.pc = "idle") =>
               StoredCount(soul') - StoredCount(soul)
                 = (IF soul'.calls[Len(soul'.calls)].outcome = "returned" THEN 1 ELSE 0)]_vars

C31_Witness ==
  /\ program = "runner"
  /\ soul.pc = "idle"
  /\ soul.accepted = MaxMessages
  /\ Len(soul.spoken) = MaxMessages
  /\ soul.spoken[1] = RunnerFallback
  /\ Cardinality(Answered(soul.spoken)) = 1
  /\ "conversationCount" \in DOMAIN soul.soulMemoryStore
  /\ soul.soulMemoryStore.conversationCount = 1
  /\ Len(soul.host) > MaxMessages - 1

\* the value stored under "conversationSummaries", empty when there is none
StoredSummaries(s) ==
  IF "conversationSummaries" \in DOMAIN s.soulMemoryStore
  THEN s.soulMemoryStore.conversationSummaries ELSE <<>>

\* C32: in the persistent runner conversationSummaries holds one entry for
\* every multiple of 5 that conversationCount has reached: its length is the
\* integer part of conversationCount / 5, its i-th entry carries
\* conversationNumber 5 * i, and it gains an entry exactly in the step in
\* which the count becomes a multiple of 5.
C32_OneSummaryEveryFifth ==
  /\ [](program = "runner" =>
         /\ Len(StoredSummaries(soul)) = StoredCount(soul) \div SummaryEvery
         /\ \A i \in 1..Len(StoredSummaries(soul)) :
              StoredSummaries(soul)[i].conversationNumber = SummaryEvery * i)
  /\ [][program = "runner" =>
          /\ IsPrefix(StoredSummaries(soul), StoredSummaries(soul'))
          /\ Len(StoredSummaries(soul')) = Len(StoredSummaries(soul)) + 1
               <=> /\ StoredCount(soul') # StoredCount(soul)
                   /\ StoredCount(soul') % SummaryEvery = 0]_vars

C32_Witness ==
  /\ program = "runner"
  /\ soul.pc = "idle"
  /\ StoredCount(soul) = 2 * SummaryEvery
  /\ Len(StoredSummaries(soul)) = 2
  /\ StoredSummaries(soul)[1].conversationNumber = SummaryEvery
  /\ StoredSummaries(soul)[2].conversationNumber = 2 * SummaryEvery
  /\ StoredSummaries(soul)[2].messageCount = Len(soul.workingMemory.memories)
  /\ Len(soul.spoken) = 1

\* the stored user name of a store, as a set: empty when there is none
NamesIn(store) == IF "userName" \in DOMAIN store THEN {store.userName} ELSE {}
\* the user name the memory file holds
NamesOn(file) == IF file.exists THEN NamesIn(Parse(file.data)) ELSE {}

\* C33: in the persistent runner a stored userName is first-write-wins: once
\* the store holds a name no later step changes or removes it, whatever name
\* a message mentions; the runner constructed after a restart holds the same
\* name; and a name that is on the memory file is never replaced there.
C33_NameIsFirstWriteWins ==
  [][program = "runner" =>
       /\ (Alive(soul') /\ NamesIn(soul.soulMemoryStore) # {}) =>
            NamesIn(soul'.soulMemoryStore) = NamesIn(soul.soulMemoryStore)
       /\ (Alive(soul) /\ ~Alive(soul') /\ NamesIn(soul.soulMemoryStore) # {}) =>
            NamesIn(soul'.successor.soulMemoryStore) = NamesIn(soul.soulMemoryStore)
       /\ NamesOn(soul.memoryFile) # {} =>
            NamesOn(soul'.memoryFile) = NamesOn(soul.memoryFile)]_vars

\* the value stored under "userFacts", empty when there is none
StoredFacts(s) ==
  IF "userFacts" \in DOMAIN s.soulMemoryStore THEN s.soulMemoryStore.userFacts ELSE <<>>
\* the user's messages in a memory, in order
UserMessages(memory) ==
  LET said(entry) == entry.role = User
      entries == SelectSeq(memory.memories, said)
  IN [i \in 1..Len(entries) |-> entries[i].content]

\* C34: in the persistent runner the stored userFacts never holds the same
\* fact string twice, whatever messages were sent (the same message again, a
\* message matching several patterns), and every step leaves the facts
\* already stored in place and in order, adding new ones at the end only.
C34_FactsAreStoredOnce ==
  /\ [](program = "runner" =>
         \A i, j \in 1..Len(StoredFacts(soul)) :
           i # j => StoredFacts(soul)[i] # StoredFacts(soul)[j])
  /\ [][program = "runner" => IsPrefix(StoredFacts(soul), StoredFacts(soul'))]_vars

C34_Witness ==
  /\ program = "runner"
  /\ soul.pc = "idle"
  /\ soul.accepted = MaxMessages
  /\ Len(soul.workingMemory.memories) = 2 + 3 * MaxMessages
  /\ UserMessages(soul.workingMemory)[1] = UserMessages(soul.workingMemory)[MaxMessages]
  /\ Len(FactMatches(UserMessages(soul.workingMemory)[1])[1]) > 0
  /\ Len(FactMatches(UserMessages(soul.workingMemory)[1])[4]) > 0
  /\ Len(StoredFacts(soul)) = 2

\* learningProcess has ended and no call of its Processor failed
LearningEnded ==
  /\ program = "learning"
  /\ scholar.pc \in {"returned", "failed"}
  /\ scholar.error # "ProcessorError"
\* the steps of the given name that the process executed
Executed(steps, step) == {i \in 1..Len(steps) : steps[i] = step}

DefaultPostProcessing(options) ==
  "postProcess" \in DOMAIN options => options.postProcess = DefaultPostProcess
\* externalDialog with the reasoning model answered by a structured response
ReasonedDialog ==
  lab.step = "externalDialog" /\ lab.options.model = "reasoning" /\ IsObject(lab.response)

\* C37: with default post-processing every invocation of a cognitive step
\* that returns gives a memory that is the memory it was called with followed
\* by exactly one entry, of role assistant; externalDialog with the reasoning
\* model and a structured response gives two assistant entries, the internal
\* thought and then the spoken response.  No step adds a user or a system
\* entry.
C37_OneAssistantEntryPerStep ==
  (program = "step" /\ DefaultPostProcessing(lab.options)) =>
    \A i \in 1..Len(lab.results) :
      lab.results[i].ok =>
        LET after == lab.results[i].pair.memory
            added == EntriesAdded(lab.given, after)
        IN /\ IsPrefix(lab.given.memories, after.memories)
           /\ \A k \in 1..Len(added) : added[k].role = Assistant
           /\ Len(added) = IF ReasonedDialog THEN 2 ELSE 1
           /\ ReasonedDialog =>
                /\ added[1].content = <<"[Internal: ">> \o lab.response.thought \o <<"]">>
                /\ added[2].content = StripEntityAndVerb(lab.response.response)

C37_Witness ==
  /\ program = "step"
  /\ ReasonedDialog
  /\ Len(lab.results) = MaxRuns
  /\ lab.results[MaxRuns].ok
  /\ Len(lab.results[MaxRuns].pair.memory.memories) = Len(lab.given.memories) + 2
  /\ lab.results[MaxRuns].pair.memory.memories[Len(lab.given.memories) + 2].content
       = <<"Tell", " ", "me", " ", "more">>

\* C38: in the terminal app the handlers registered for the soul's 'says'
\* event do not grow with the messages sent: at most one is registered at
\* any time, and every response of the soul is written to the terminal
\* exactly once and accumulated once by the handler.
C38_OneSaysHandler ==
  program = "terminal" =>
    /\ Len(soul.listeners) <= 1
    /\ \A i \in 1..Len(soul.rendered) : soul.rendered[i].times = 1

====
